---------------------------- MODULE Spec2Model ----------------------------
(***************************************************************************)
(* Gold trading simulator (karim-coder/gold-simulation).                   *)
(*                                                                         *)
(* The repository holds several self-contained revisions of one backtest   *)
(* loop.  Each is modelled as its own specification over shared state:     *)
(*   Spec        README.md, first TradingSimulator  (multi-position,       *)
(*               trailing stop, fees charged day by day)                   *)
(*   SpecFee     README.md, second TradingSimulator (fees subtracted from  *)
(*               the proceeds at close as well)                            *)
(*   SpecSingle  src/App.tsx (take profit) and src/test.tsx (long/short),  *)
(*               one open position at a time, flat daily fee               *)
(*   SpecMetrics calculatePerformanceMetrics of the utils file             *)
(* The first TradingSimulator is also run from other initial states:       *)
(*   SpecValidate  what the form can hold, a cleared field (NaN) included  *)
(*   SpecScenario  the parameters the form starts with, three-day series   *)
(*   SpecTight     a stop of 100 and daily fees of 0%, 10% and 60%         *)
(*                                                                         *)
(* JavaScript numbers are modelled as exact rationals <<n, d>> in lowest   *)
(* terms with d > 0, extended with the three non-finite IEEE values        *)
(* <<1,0>> (Infinity), <<-1,0>> (-Infinity) and <<0,0>> (NaN), which is    *)
(* what the code's divisions by zero produce.  Rounding error is not       *)
(* modelled: the specification's properties are stated "within            *)
(* floating-point tolerance".                                              *)
(***************************************************************************)
EXTENDS Integers, Sequences, FiniteSets, TLC

---------------------------------------------------------------------------
(* JavaScript number arithmetic                                            *)

Abs(n) == IF n < 0 THEN -n ELSE n

Sign(n) == IF n > 0 THEN 1 ELSE IF n < 0 THEN -1 ELSE 0

RECURSIVE GCD(_, _)
GCD(a, b) == IF b = 0 THEN a ELSE GCD(b, a % b)

\* the number n/d: lowest terms, positive denominator; x/0 is +-Infinity or NaN
Num(n, d) ==
  IF d = 0 THEN <<Sign(n), 0>>
  ELSE LET g == GCD(Abs(n), Abs(d))
       IN  <<(Sign(d) * n) \div g, Abs(d) \div g>>

R(n) == <<n, 1>>

Zero == <<0, 1>>
NaN == <<0, 0>>
Infinity == <<1, 0>>
NegInfinity == <<-1, 0>>

IsNaN(x) == x = NaN
IsFinite(x) == x[2] # 0

Neg(x) == <<-x[1], x[2]>>

Add(x, y) ==
  IF IsFinite(x) /\ IsFinite(y)
  THEN LET g == GCD(x[2], y[2])
       IN  Num(x[1] * (y[2] \div g) + y[1] * (x[2] \div g), (x[2] \div g) * y[2])
  ELSE IF IsNaN(x) \/ IsNaN(y) THEN NaN
  ELSE IF ~IsFinite(x) /\ ~IsFinite(y) /\ x # y THEN NaN
  ELSE IF ~IsFinite(x) THEN x ELSE y

Sub(x, y) == Add(x, Neg(y))

Mul(x, y) ==
  IF IsFinite(x) /\ IsFinite(y)
  THEN LET g1 == GCD(Abs(x[1]), y[2])
           g2 == GCD(Abs(y[1]), x[2])
       IN  Num((x[1] \div g1) * (y[1] \div g2), (x[2] \div g2) * (y[2] \div g1))
  ELSE IF IsNaN(x) \/ IsNaN(y) THEN NaN
  ELSE <<Sign(x[1]) * Sign(y[1]), 0>>

\* 1/x; 1/0 is Infinity, so that x/0 is +-Infinity and 0/0 is NaN
Inv(x) ==
  IF IsNaN(x) THEN NaN
  ELSE IF ~IsFinite(x) THEN Zero
  ELSE IF x[1] = 0 THEN Infinity
  ELSE <<Sign(x[1]) * x[2], Abs(x[1])>>

Div(x, y) == Mul(x, Inv(y))

\* a/b < c/d for b, d > 0, by continued fractions (no products, so no overflow)
RECURSIVE LtFrac(_, _, _, _)
LtFrac(a, b, c, d) ==
  IF a \div b # c \div d THEN a \div b < c \div d
  ELSE IF c % d = 0 THEN FALSE
  ELSE IF a % b = 0 THEN TRUE
  ELSE LtFrac(d, c % d, b, a % b)

\* x < y; every comparison with NaN is false
Lt(x, y) ==
  IF IsNaN(x) \/ IsNaN(y) THEN FALSE
  ELSE IF IsFinite(x) /\ IsFinite(y) THEN LtFrac(x[1], x[2], y[1], y[2])
  ELSE x # y /\ (x = NegInfinity \/ y = Infinity)

Le(x, y) == ~IsNaN(x) /\ ~IsNaN(y) /\ (x = y \/ Lt(x, y))
Gt(x, y) == Lt(y, x)
Ge(x, y) == Le(y, x)

\* Math.max, Math.min, Math.abs
MathMax(x, y) == IF IsNaN(x) \/ IsNaN(y) THEN NaN ELSE IF Lt(x, y) THEN y ELSE x
MathMin(x, y) == IF IsNaN(x) \/ IsNaN(y) THEN NaN ELSE IF Lt(y, x) THEN y ELSE x
MathAbs(x) == <<Abs(x[1]), x[2]>>


---------------------------------------------------------------------------
(* Bounds of the model and the inputs drawn from them                      *)

\* loop iterations of one run (the series holds MaxDays + 1 points at most)
MaxDays == 4

\* the prices a series point may quote
Prices == {75, 100}

\* the results before the first run (null in the code)
null == [null |-> TRUE]

\* the value of a date variable before the first day (null in the code)
NoDate == 0

\* points of a series that may repeat the date of the point before them
MaxSameDate == 1

\* a series point: it opens and closes at quoted prices, its high and low are
\* the larger and the smaller of the two
Candles(date) ==
  {[date |-> date, openingPrice |-> o,
    highestPrice |-> IF o > c THEN o ELSE c,
    lowestPrice |-> IF o < c THEN o ELSE c,
    currentPrice |-> c] : <<o, c>> \in Prices \X Prices}

\* the parameter records the form can hold (each field a JavaScript number)
ParamSpace ==
  [investmentCapital : {R(200)},
   positionSizePercent : {R(50), R(100)},
   leverage : {R(10)},
   stopLossDollar : {R(200)},
   minPriceMovement : {R(0)},
   dailyFeePercent : {R(10)},
   useTrailingStop : {TRUE}]
  \cup
  [investmentCapital : {R(200)},
   positionSizePercent : {R(50)},
   leverage : {R(10)},
   stopLossDollar : {R(200)},
   minPriceMovement : {R(30)},
   dailyFeePercent : {R(10)},
   useTrailingStop : {TRUE}]
  \cup
  \* a position size of a quarter percent: the base amount stays below 1
  [investmentCapital : {R(200)},
   positionSizePercent : {Num(1, 4)},
   leverage : {R(10)},
   stopLossDollar : {R(200)},
   minPriceMovement : {R(0)},
   dailyFeePercent : {R(10)},
   useTrailingStop : {TRUE}]

\* the first point of a series: only its opening price, closing price and
\* date are ever read
FirstPoints ==
  {[date |-> 1, openingPrice |-> q, highestPrice |-> q, lowestPrice |-> q,
    currentPrice |-> q] : q \in Prices}

\* how many points of the series repeat the date before them
RECURSIVE SameDates(_)
SameDates(series) ==
  IF Len(series) < 2 THEN 0
  ELSE SameDates(Tail(series)) +
       (IF series[1].date = series[2].date THEN 1 ELSE 0)

VARIABLES
  params,                \* useState<SimulationParams>
  results,               \* useState<SimulationResults | null>
  pc,                    \* where runSimulation stands
  goldPriceHistory,      \* the series points read so far (index 0 .. index)
  currentCapital, totalProfitLoss, tradesExecuted, totalFees,
  consecutiveLosses, maxConsecutiveLosses, skippedTrades,
  equityCurve, tradeHistory, openPositions, activePositions, currentDate,
  program,               \* which single-position file runs (SpecSingle only)
  lastTwoYearsGoldPriceData,  \* its series points read so far
  openPosition,          \* its open position, or null
  lastTradeDate          \* the date its daily fee was last charged

\* the state of the single-position simulators
single == <<program, lastTwoYearsGoldPriceData, openPosition, lastTradeDate>>

vars == <<single, params, results, pc, goldPriceHistory, currentCapital,
          totalProfitLoss, tradesExecuted, totalFees, consecutiveLosses,
          maxConsecutiveLosses, skippedTrades, equityCurve, tradeHistory,
          openPositions, activePositions, currentDate>>

\* the locals of runSimulation
locals == <<currentCapital, totalProfitLoss, tradesExecuted, totalFees,
            consecutiveLosses, maxConsecutiveLosses, skippedTrades,
            equityCurve, tradeHistory, openPositions, activePositions,
            currentDate>>

\* the loop variable: index of the point being processed (0-based, as in the code)
index == Len(goldPriceHistory) - 1
currentData == goldPriceHistory[Len(goldPriceHistory)]
previousData == goldPriceHistory[Len(goldPriceHistory) - 1]

---------------------------------------------------------------------------
(* README.md, first TradingSimulator: helpers                              *)

validateParams(p) ==
  IF Le(p.investmentCapital, Zero) THEN FALSE
  ELSE IF Le(p.positionSizePercent, Zero) \/ Gt(p.positionSizePercent, R(100))
  THEN FALSE
  ELSE IF Le(p.leverage, Zero) \/ Gt(p.leverage, R(200)) THEN FALSE
  ELSE IF Le(p.stopLossDollar, Zero) THEN FALSE
  ELSE IF Lt(p.minPriceMovement, Zero) THEN FALSE
  ELSE IF Lt(p.dailyFeePercent, Zero) THEN FALSE
  ELSE TRUE

\* an entry rule that fires on every move that is not a fall
shouldOpenPositionIgnoringThreshold(currentPrice, previousPrice, threshold) ==
  LET priceMovement ==
        Mul(Div(Sub(currentPrice, previousPrice), previousPrice), R(100))
  IN  Ge(priceMovement, Zero)

shouldOpenPosition(currentPrice, previousPrice, threshold) ==
  LET priceMovement ==
        Mul(Div(Sub(currentPrice, previousPrice), previousPrice), R(100))
  IN  Ge(priceMovement, threshold)

\* a stop that fires at half the dollar loss
isStopLossTriggeredAtHalf(currentPrice, highestPrice, leveragedAmount, stopLossAmount, useTrailing) ==
  IF ~useTrailing THEN FALSE
  ELSE LET percentageDropFromHighest ==
             Div(Sub(highestPrice, currentPrice), highestPrice)
           dollarLoss == Mul(leveragedAmount, percentageDropFromHighest)
       IN  Ge(Mul(R(2), dollarLoss), stopLossAmount)

\* a stop that compares the percentage drop, not the dollar loss
isStopLossTriggeredByPercent(currentPrice, highestPrice, leveragedAmount, stopLossAmount, useTrailing) ==
  IF ~useTrailing THEN FALSE
  ELSE LET percentageDropFromHighest ==
             Div(Sub(highestPrice, currentPrice), highestPrice)
       IN  Ge(Mul(percentageDropFromHighest, R(100)), stopLossAmount)

isStopLossTriggered(currentPrice, highestPrice, leveragedAmount, stopLossAmount, useTrailing) ==
  IF ~useTrailing THEN FALSE
  ELSE LET percentageDropFromHighest ==
             Div(Sub(highestPrice, currentPrice), highestPrice)
           dollarLoss == Mul(leveragedAmount, percentageDropFromHighest)
       IN  Ge(dollarLoss, stopLossAmount)

\* a stop price twice the percentage drop below the highest price
calculateStopLossPriceTwiceDrop(highestPrice, leveragedAmount, stopLossAmount) ==
  LET percentageDrop == Div(stopLossAmount, leveragedAmount)
  IN  Mul(highestPrice, Sub(R(1), Mul(R(2), percentageDrop)))

\* a stop price with the drop added to the highest price, not taken off it
calculateStopLossPriceAbove(highestPrice, leveragedAmount, stopLossAmount) ==
  LET percentageDrop == Div(stopLossAmount, leveragedAmount)
  IN  Mul(highestPrice, Add(R(1), percentageDrop))

calculateStopLossPrice(highestPrice, leveragedAmount, stopLossAmount) ==
  LET percentageDrop == Div(stopLossAmount, leveragedAmount)
  IN  Mul(highestPrice, Sub(R(1), percentageDrop))

\* dates are day numbers, so the difference is already a whole number of days
calculateDaysHeld(startDate, endDate) == Abs(endDate - startDate)

\* a pnl computed on the base amount, without the leverage
PositionPnlOnBase(position, price) ==
  LET percentageChange ==
        Div(Sub(price, position.entryPrice), position.entryPrice)
  IN  Mul(position.baseAmount, percentageChange)

\* pnl of a position marked at `price`
PositionPnl(position, price) ==
  LET percentageChange ==
        Div(Sub(price, position.entryPrice), position.entryPrice)
  IN  Mul(position.leveragedAmount, percentageChange)

\* the proceeds with the accrued fees taken off a second time
AmountToReturnLessFees(position, pnl) ==
  Sub(Add(position.baseAmount, pnl), position.accumulatedFees)

\* what a closing position pays back into currentCapital
AmountToReturn(position, pnl) == Add(position.baseAmount, pnl)

\* a ledger entry that does not carry the position's fees
TradeRecordWithoutFees(position, exitDate, exitPrice, pnl, capital, exitIdx, reason) ==
  [entry |-> position.entryDate,
   exit |-> exitDate,
   entryPrice |-> position.entryPrice,
   exitPrice |-> exitPrice,
   highestPrice |-> position.highestPrice,
   baseAmount |-> position.baseAmount,
   leveragedAmount |-> position.leveragedAmount,
   pnl |-> pnl,
   fees |-> Zero,
   daysHeld |-> calculateDaysHeld(position.entryDate, exitDate),
   remainingCapital |-> capital,
   capitalAtEntry |-> position.remainingCapitalAtEntry,
   entryIndex |-> position.entryIndex,
   exitIndex |-> exitIdx,
   closedBy |-> reason]

\* the ledger entry of a closed position (entryIndex, exitIndex and closedBy
\* are not fields of the code's record: they name the loop iterations and the
\* code path, for the properties below)
TradeRecord(position, exitDate, exitPrice, pnl, capital, exitIdx, reason) ==
  [entry |-> position.entryDate,
   exit |-> exitDate,
   entryPrice |-> position.entryPrice,
   exitPrice |-> exitPrice,
   highestPrice |-> position.highestPrice,
   baseAmount |-> position.baseAmount,
   leveragedAmount |-> position.leveragedAmount,
   pnl |-> pnl,
   fees |-> position.accumulatedFees,
   daysHeld |-> calculateDaysHeld(position.entryDate, exitDate),
   remainingCapital |-> capital,
   capitalAtEntry |-> position.remainingCapitalAtEntry,
   entryIndex |-> position.entryIndex,
   exitIndex |-> exitIdx,
   closedBy |-> reason]

\* a splice that removes nothing
SpliceNothing(s, i) == s

\* activePositions.splice(i, 1)
Splice(s, i) == SubSeq(s, 1, i - 1) \o SubSeq(s, i + 1, Len(s))

\* the consecutive-loss counters after a trade with this pnl
TrackLosses(pnl, consecutive, maxConsecutive) ==
  IF Lt(pnl, Zero)
  THEN [consecutiveLosses |-> consecutive + 1,
        maxConsecutiveLosses |->
          IF consecutive + 1 > maxConsecutive THEN consecutive + 1
          ELSE maxConsecutive]
  ELSE [consecutiveLosses |-> 0, maxConsecutiveLosses |-> maxConsecutive]

---------------------------------------------------------------------------
(* README.md, first TradingSimulator: the loops of runSimulation           *)

\* a fee loop that takes the whole fee even when the capital falls short
RECURSIVE FeeLoopChargingInFull(_, _, _, _, _, _)
FeeLoopChargingInFull(positions, i, capital, fees, date, dailyFeePercent) ==
  IF i > Len(positions)
  THEN [activePositions |-> positions, currentCapital |-> capital,
        totalFees |-> fees]
  ELSE LET position == positions[i]
           dailyFee ==
             Mul(Div(dailyFeePercent, R(100)), position.baseAmount)
       IN  IF position.lastFeeDate # date
           THEN FeeLoopChargingInFull(
                  [positions EXCEPT
                     ![i].accumulatedFees = Add(@, dailyFee),
                     ![i].lastFeeDate = date],
                  i + 1, Sub(capital, dailyFee), Add(fees, dailyFee),
                  date, dailyFeePercent)
           ELSE FeeLoopChargingInFull(positions, i + 1, capital, fees, date,
                                      dailyFeePercent)

\* a fee loop that charges the rate on the leveraged amount
RECURSIVE FeeLoopOnLeveragedAmount(_, _, _, _, _, _)
FeeLoopOnLeveragedAmount(positions, i, capital, fees, date, dailyFeePercent) ==
  IF i > Len(positions)
  THEN [activePositions |-> positions, currentCapital |-> capital,
        totalFees |-> fees]
  ELSE LET position == positions[i]
           dailyFee ==
             Mul(Div(dailyFeePercent, R(100)), position.leveragedAmount)
       IN  IF position.lastFeeDate # date
           THEN IF Ge(capital, dailyFee)
                THEN FeeLoopOnLeveragedAmount(
                       [positions EXCEPT
                          ![i].accumulatedFees = Add(@, dailyFee),
                          ![i].lastFeeDate = date],
                       i + 1, Sub(capital, dailyFee), Add(fees, dailyFee),
                       date, dailyFeePercent)
                ELSE [activePositions |->
                        [positions EXCEPT
                           ![i].accumulatedFees = Add(@, capital)],
                      currentCapital |-> Zero,
                      totalFees |-> Add(fees, capital)]
           ELSE FeeLoopOnLeveragedAmount(positions, i + 1, capital, fees,
                                         date, dailyFeePercent)

\* for (const position of activePositions): the daily fee of every position
\* from the i-th on, stopping at the first one the capital cannot pay
RECURSIVE FeeLoop(_, _, _, _, _, _)
FeeLoop(positions, i, capital, fees, date, dailyFeePercent) ==
  IF i > Len(positions)
  THEN [activePositions |-> positions, currentCapital |-> capital,
        totalFees |-> fees]
  ELSE LET position == positions[i]
           dailyFee ==
             Mul(Div(dailyFeePercent, R(100)), position.baseAmount)
       IN  IF position.lastFeeDate # date
           THEN IF Ge(capital, dailyFee)
                THEN FeeLoop(
                       [positions EXCEPT
                          ![i].accumulatedFees = Add(@, dailyFee),
                          ![i].lastFeeDate = date],
                       i + 1, Sub(capital, dailyFee), Add(fees, dailyFee),
                       date, dailyFeePercent)
                ELSE \* feePaid = currentCapital; break
                     [activePositions |->
                        [positions EXCEPT
                           ![i].accumulatedFees = Add(@, capital)],
                      currentCapital |-> Zero,
                      totalFees |-> Add(fees, capital)]
           ELSE FeeLoop(positions, i + 1, capital, fees, date,
                        dailyFeePercent)

\* one pass of the body of for (let i = activePositions.length - 1; ...):
\* st holds the locals the loop writes
ExitStep(st, i, day, p, idx) ==
  LET old == st.activePositions[i]
      position ==
        IF Gt(R(day.highestPrice), old.highestPrice)
        THEN [old EXCEPT !.highestPrice = R(day.highestPrice)]
        ELSE old
      stopLossTriggered ==
        isStopLossTriggered(R(day.lowestPrice), position.highestPrice,
                            position.leveragedAmount, p.stopLossDollar,
                            p.useTrailingStop)
      exitPrice ==
        calculateStopLossPrice(position.highestPrice,
                               position.leveragedAmount, p.stopLossDollar)
      pnl == PositionPnl(position, exitPrice)
      capital == Add(st.currentCapital, AmountToReturn(position, pnl))
      losses == TrackLosses(pnl, st.consecutiveLosses,
                            st.maxConsecutiveLosses)
  IN  IF stopLossTriggered
      THEN [activePositions |-> Splice(st.activePositions, i),
            currentCapital |-> capital,
            totalProfitLoss |-> Add(st.totalProfitLoss, pnl),
            tradeHistory |->
              Append(st.tradeHistory,
                     TradeRecord(position, day.date, exitPrice, pnl, capital,
                                 idx, "stop")),
            consecutiveLosses |-> losses.consecutiveLosses,
            maxConsecutiveLosses |-> losses.maxConsecutiveLosses]
      ELSE [st EXCEPT !.activePositions[i] = position]

RECURSIVE ExitLoop(_, _, _, _, _)
ExitLoop(st, i, day, p, idx) ==
  IF i < 1 THEN st
  ELSE ExitLoop(ExitStep(st, i, day, p, idx), i - 1, day, p, idx)

\* a position whose leverage is applied to the whole capital
NewPositionLeveragingCapital(day, baseAmount, leverage, capital, idx) ==
  [entryPrice |-> R(day.openingPrice),
   entryDate |-> day.date,
   highestPrice |-> R(day.highestPrice),
   baseAmount |-> baseAmount,
   leveragedAmount |-> Mul(capital, leverage),
   accumulatedFees |-> Zero,
   lastFeeDate |-> day.date,
   remainingCapitalAtEntry |-> capital,
   entryIndex |-> idx]

\* the position pushed at entry
NewPosition(day, baseAmount, leverage, capital, idx) ==
  [entryPrice |-> R(day.openingPrice),
   entryDate |-> day.date,
   highestPrice |-> R(day.highestPrice),
   baseAmount |-> baseAmount,
   leveragedAmount |-> Mul(baseAmount, leverage),
   accumulatedFees |-> Zero,
   lastFeeDate |-> day.date,
   remainingCapitalAtEntry |-> capital,
   entryIndex |-> idx]

MIN_TRADING_CAPITAL == 100

\* position size as a percentage of current capital
BaseAmount(positionSizePercent, capital) ==
  MathMin(Mul(Div(positionSizePercent, R(100)), capital), capital)

\* a value of the open positions with their accumulated fees taken off
RECURSIVE PositionsValueLessFees(_, _)
PositionsValueLessFees(positions, price) ==
  IF positions = <<>> THEN Zero
  ELSE LET pos == Head(positions)
           unrealizedPnL == PositionPnl(pos, price)
       IN  Sub(Add(Add(PositionsValueLessFees(Tail(positions), price),
                       pos.baseAmount),
                   unrealizedPnL),
               pos.accumulatedFees)

\* activePositions.reduce(...) of the equity curve
RECURSIVE PositionsValue(_, _)
PositionsValue(positions, price) ==
  IF positions = <<>> THEN Zero
  ELSE LET pos == Head(positions)
           unrealizedPnL == PositionPnl(pos, price)
       IN  Add(Add(PositionsValue(Tail(positions), price), pos.baseAmount),
               unrealizedPnL)

Equity(capital, positions, price) ==
  Add(capital, PositionsValue(positions, price))

\* activePositions.forEach(...) after the loop: st holds the locals it writes
RECURSIVE CloseLoop(_, _, _, _, _, _)
CloseLoop(st, positions, i, lastPrice, lastDate, idx) ==
  IF i > Len(positions) THEN st
  ELSE LET position == positions[i]
           pnl == PositionPnl(position, lastPrice)
           capital == Add(st.currentCapital, AmountToReturn(position, pnl))
       IN  CloseLoop(
             [currentCapital |-> capital,
              totalProfitLoss |-> Add(st.totalProfitLoss, pnl),
              tradeHistory |->
                Append(st.tradeHistory,
                       TradeRecord(position, lastDate, lastPrice, pnl,
                                   capital, idx, "end")),
              openPositions |->
                Append(st.openPositions,
                       [entryDate |-> position.entryDate,
                        entryPrice |-> position.entryPrice,
                        currentPrice |-> lastPrice,
                        highestPrice |-> position.highestPrice,
                        baseAmount |-> position.baseAmount,
                        leveragedAmount |-> position.leveragedAmount,
                        unrealizedPnl |-> pnl,
                        accumulatedFees |-> position.accumulatedFees,
                        capitalAtEntry |-> position.remainingCapitalAtEntry])],
             positions, i + 1, lastPrice, lastDate, idx)

\* drawdown of one point against the running peak
RECURSIVE DrawdownLoop(_, _, _, _)
DrawdownLoop(curve, i, peak, maxDrawdown) ==
  IF i > Len(curve) THEN maxDrawdown
  ELSE IF Gt(curve[i].equity, peak)
       THEN DrawdownLoop(curve, i + 1, curve[i].equity, maxDrawdown)
       ELSE LET drawdown == Div(Sub(peak, curve[i].equity), peak)
            IN  DrawdownLoop(curve, i + 1, peak,
                             MathMax(maxDrawdown, drawdown))

calculateDrawdown(curve) ==
  IF Len(curve) = 0 THEN Zero
  ELSE DrawdownLoop(curve, 1, curve[1].equity, Zero)

\* a count of the trades that did not lose
WinsOrFlat(history) == Cardinality({i \in 1..Len(history) : Ge(history[i].pnl, Zero)})

\* tradeHistory.filter((t) => t.pnl > 0).length
Wins(history) == Cardinality({i \in 1..Len(history) : Gt(history[i].pnl, Zero)})

---------------------------------------------------------------------------
(* README.md, first TradingSimulator: runSimulation step by step           *)

\* the component as mounted: parameters in the form, no results yet, and the
\* first point of the bundled price series
Init ==
  /\ params \in ParamSpace
  /\ results = null
  /\ pc = "idle"
  /\ goldPriceHistory \in {<<c>> : c \in FirstPoints}
  /\ currentCapital = Zero
  /\ totalProfitLoss = Zero
  /\ tradesExecuted = 0
  /\ totalFees = Zero
  /\ consecutiveLosses = 0
  /\ maxConsecutiveLosses = 0
  /\ skippedTrades = 0
  /\ equityCurve = <<>>
  /\ tradeHistory = <<>>
  /\ openPositions = <<>>
  /\ activePositions = <<>>
  /\ currentDate = NoDate
  /\ program = "README.md"
  /\ lastTwoYearsGoldPriceData = <<>>
  /\ openPosition = null
  /\ lastTradeDate = NoDate

\* the button press: validation, then the locals are initialised
RunSimulation ==
  /\ pc = "idle"
  /\ IF ~validateParams(params)
     THEN /\ pc' = "rejected"
          /\ UNCHANGED locals
     ELSE /\ pc' = "loop"
          /\ currentCapital' = params.investmentCapital
          /\ totalProfitLoss' = Zero
          /\ tradesExecuted' = 0
          /\ totalFees' = Zero
          /\ consecutiveLosses' = 0
          /\ maxConsecutiveLosses' = 0
          /\ skippedTrades' = 0
          /\ equityCurve' = <<>>
          /\ tradeHistory' = <<>>
          /\ openPositions' = <<>>
          /\ activePositions' = <<>>
          /\ currentDate' = NoDate
  /\ UNCHANGED <<single, params, results, goldPriceHistory>>

\* a loop head that leaves as soon as the capital is gone, positions or not
NextDayBreakOnCapital ==
  /\ pc = "loop"
  /\ index < MaxDays
  /\ \E d \in {currentData.date, currentData.date + 1} :
       \E c \in Candles(d) :
         /\ goldPriceHistory' = Append(goldPriceHistory, c)
         /\ SameDates(goldPriceHistory') <= MaxSameDate
  /\ pc' = IF Le(currentCapital, Zero) THEN "close" ELSE "fees"
  /\ UNCHANGED <<single, params, results, locals>>

\* the loop reads the next point of the series (same date as the last point or
\* the next date) and leaves at once when no capital and no positions are left
NextDay ==
  /\ pc = "loop"
  /\ index < MaxDays
  /\ \E d \in {currentData.date, currentData.date + 1} :
       \E c \in Candles(d) :
         /\ goldPriceHistory' = Append(goldPriceHistory, c)
         /\ SameDates(goldPriceHistory') <= MaxSameDate
  /\ pc' = IF Le(currentCapital, Zero) /\ Len(activePositions) = 0
           THEN "close" ELSE "fees"
  /\ UNCHANGED <<single, params, results, locals>>

\* index has reached goldPriceHistory.length
SeriesEnd ==
  /\ pc = "loop"
  /\ pc' = "close"
  /\ UNCHANGED <<single, params, results, goldPriceHistory, locals>>

\* new day processing for fees
DailyFees ==
  /\ pc = "fees"
  /\ pc' = "exits"
  /\ IF currentDate # currentData.date
     THEN LET r == FeeLoop(activePositions, 1, currentCapital, totalFees,
                           currentData.date, params.dailyFeePercent)
          IN  /\ currentDate' = currentData.date
              /\ activePositions' = r.activePositions
              /\ currentCapital' = r.currentCapital
              /\ totalFees' = r.totalFees
     ELSE UNCHANGED <<currentDate, activePositions, currentCapital, totalFees>>
  /\ UNCHANGED <<single, params, results, goldPriceHistory, totalProfitLoss,
                 tradesExecuted, consecutiveLosses, maxConsecutiveLosses,
                 skippedTrades, equityCurve, tradeHistory, openPositions>>

\* process existing positions on every day: highest price, stop loss, close
ProcessPositions ==
  /\ pc = "exits"
  /\ pc' = "entry"
  /\ LET st == ExitLoop(
                 [activePositions |-> activePositions,
                  currentCapital |-> currentCapital,
                  totalProfitLoss |-> totalProfitLoss,
                  tradeHistory |-> tradeHistory,
                  consecutiveLosses |-> consecutiveLosses,
                  maxConsecutiveLosses |-> maxConsecutiveLosses],
                 Len(activePositions), currentData, params, index)
     IN  /\ activePositions' = st.activePositions
         /\ currentCapital' = st.currentCapital
         /\ totalProfitLoss' = st.totalProfitLoss
         /\ tradeHistory' = st.tradeHistory
         /\ consecutiveLosses' = st.consecutiveLosses
         /\ maxConsecutiveLosses' = st.maxConsecutiveLosses
  /\ UNCHANGED <<single, params, results, goldPriceHistory, tradesExecuted, totalFees,
                 skippedTrades, equityCurve, openPositions, currentDate>>

\* an entry check that runs the stop check again once the position is pushed
CheckEntryThenStopCheck ==
  /\ pc = "entry"
  /\ pc' = "equity"
  /\ LET shouldOpen ==
           shouldOpenPosition(R(currentData.openingPrice),
                              R(previousData.openingPrice),
                              params.minPriceMovement)
         baseAmount == BaseAmount(params.positionSizePercent, currentCapital)
         enough == Ge(currentCapital, R(MIN_TRADING_CAPITAL))
         opens == enough /\ shouldOpen /\ Ge(baseAmount, R(1))
         pushed ==
           IF opens
           THEN Append(activePositions,
                       NewPosition(currentData, baseAmount, params.leverage,
                                   currentCapital, index))
           ELSE activePositions
         st == ExitLoop(
                 [activePositions |-> pushed,
                  currentCapital |->
                    IF opens THEN Sub(currentCapital, baseAmount)
                    ELSE currentCapital,
                  totalProfitLoss |-> totalProfitLoss,
                  tradeHistory |-> tradeHistory,
                  consecutiveLosses |-> consecutiveLosses,
                  maxConsecutiveLosses |-> maxConsecutiveLosses],
                 Len(pushed), currentData, params, index)
     IN  /\ activePositions' = st.activePositions
         /\ currentCapital' = st.currentCapital
         /\ totalProfitLoss' = st.totalProfitLoss
         /\ tradeHistory' = st.tradeHistory
         /\ consecutiveLosses' = st.consecutiveLosses
         /\ maxConsecutiveLosses' = st.maxConsecutiveLosses
         /\ tradesExecuted' = IF opens THEN tradesExecuted + 1
                              ELSE tradesExecuted
         /\ skippedTrades' = IF ~enough /\ shouldOpen THEN skippedTrades + 1
                             ELSE skippedTrades
  /\ UNCHANGED <<single, params, results, goldPriceHistory, totalFees,
                 equityCurve, openPositions, currentDate>>

\* an entry check that looks for a signal only while no position is open
CheckEntryWhenFlat ==
  /\ pc = "entry"
  /\ pc' = "equity"
  /\ LET shouldOpen ==
           shouldOpenPosition(R(currentData.openingPrice),
                              R(previousData.openingPrice),
                              params.minPriceMovement)
         baseAmount == BaseAmount(params.positionSizePercent, currentCapital)
     IN  IF Len(activePositions) = 0 /\ Ge(currentCapital, R(MIN_TRADING_CAPITAL))
            /\ shouldOpen /\ Ge(baseAmount, R(1))
         THEN /\ activePositions' =
                   Append(activePositions,
                          NewPosition(currentData, baseAmount, params.leverage,
                                      currentCapital, index))
              /\ currentCapital' = Sub(currentCapital, baseAmount)
              /\ tradesExecuted' = tradesExecuted + 1
              /\ UNCHANGED skippedTrades
         ELSE UNCHANGED <<activePositions, currentCapital, tradesExecuted,
                          skippedTrades>>
  /\ UNCHANGED <<single, params, results, goldPriceHistory, totalProfitLoss, totalFees,
                 consecutiveLosses, maxConsecutiveLosses, equityCurve,
                 tradeHistory, openPositions, currentDate>>

\* an entry check that counts a skipped trade whenever the capital is short
CheckEntryCountingShortCapital ==
  /\ pc = "entry"
  /\ pc' = "equity"
  /\ LET shouldOpen ==
           shouldOpenPosition(R(currentData.openingPrice),
                              R(previousData.openingPrice),
                              params.minPriceMovement)
         baseAmount == BaseAmount(params.positionSizePercent, currentCapital)
     IN  IF Ge(currentCapital, R(MIN_TRADING_CAPITAL))
         THEN IF shouldOpen /\ Ge(baseAmount, R(1))
              THEN /\ activePositions' =
                        Append(activePositions,
                               NewPosition(currentData, baseAmount,
                                           params.leverage, currentCapital,
                                           index))
                   /\ currentCapital' = Sub(currentCapital, baseAmount)
                   /\ tradesExecuted' = tradesExecuted + 1
                   /\ UNCHANGED skippedTrades
              ELSE UNCHANGED <<activePositions, currentCapital,
                               tradesExecuted, skippedTrades>>
         ELSE /\ skippedTrades' = skippedTrades + 1
              /\ UNCHANGED <<activePositions, currentCapital, tradesExecuted>>
  /\ UNCHANGED <<single, params, results, goldPriceHistory, totalProfitLoss, totalFees,
                 consecutiveLosses, maxConsecutiveLosses, equityCurve,
                 tradeHistory, openPositions, currentDate>>

\* check for a new position entry, or count the trade that was skipped
CheckEntry ==
  /\ pc = "entry"
  /\ pc' = "equity"
  /\ LET shouldOpen ==
           shouldOpenPosition(R(currentData.openingPrice),
                              R(previousData.openingPrice),
                              params.minPriceMovement)
         baseAmount == BaseAmount(params.positionSizePercent, currentCapital)
     IN  IF Ge(currentCapital, R(MIN_TRADING_CAPITAL))
         THEN IF shouldOpen /\ Ge(baseAmount, R(1))
              THEN /\ activePositions' =
                        Append(activePositions,
                               NewPosition(currentData, baseAmount,
                                           params.leverage, currentCapital,
                                           index))
                   /\ currentCapital' = Sub(currentCapital, baseAmount)
                   /\ tradesExecuted' = tradesExecuted + 1
                   /\ UNCHANGED skippedTrades
              ELSE UNCHANGED <<activePositions, currentCapital,
                               tradesExecuted, skippedTrades>>
         ELSE IF shouldOpen
              THEN /\ skippedTrades' = skippedTrades + 1
                   /\ UNCHANGED <<activePositions, currentCapital,
                                  tradesExecuted>>
              ELSE UNCHANGED <<activePositions, currentCapital,
                               tradesExecuted, skippedTrades>>
  /\ UNCHANGED <<single, params, results, goldPriceHistory, totalProfitLoss, totalFees,
                 consecutiveLosses, maxConsecutiveLosses, equityCurve,
                 tradeHistory, openPositions, currentDate>>

\* an equity point only for the first point of each date
PushEquityOncePerDate ==
  /\ pc = "equity"
  /\ pc' = "loop"
  /\ equityCurve' =
       IF currentData.date = previousData.date THEN equityCurve
       ELSE Append(equityCurve,
                   [date |-> currentData.date,
                    equity |-> Equity(currentCapital, activePositions,
                                      R(currentData.currentPrice))])
  /\ UNCHANGED <<single, params, results, goldPriceHistory, currentCapital,
                 totalProfitLoss, tradesExecuted, totalFees, consecutiveLosses,
                 maxConsecutiveLosses, skippedTrades, tradeHistory,
                 openPositions, activePositions, currentDate>>

\* equity curve calculation, then index++
PushEquity ==
  /\ pc = "equity"
  /\ pc' = "loop"
  /\ equityCurve' =
       Append(equityCurve,
              [date |-> currentData.date,
               equity |-> Equity(currentCapital, activePositions,
                                 R(currentData.currentPrice))])
  /\ UNCHANGED <<single, params, results, goldPriceHistory, currentCapital,
                 totalProfitLoss, tradesExecuted, totalFees, consecutiveLosses,
                 maxConsecutiveLosses, skippedTrades, tradeHistory,
                 openPositions, activePositions, currentDate>>

\* a liquidation at the last opening price instead of the last close
CloseRemainingAtOpen ==
  /\ pc = "close"
  /\ pc' = "metrics"
  /\ LET st == CloseLoop(
                 [currentCapital |-> currentCapital,
                  totalProfitLoss |-> totalProfitLoss,
                  tradeHistory |-> tradeHistory,
                  openPositions |-> openPositions],
                 activePositions, 1, R(currentData.openingPrice),
                 currentData.date, index)
     IN  /\ currentCapital' = st.currentCapital
         /\ totalProfitLoss' = st.totalProfitLoss
         /\ tradeHistory' = st.tradeHistory
         /\ openPositions' = st.openPositions
  /\ UNCHANGED <<single, params, results, goldPriceHistory, tradesExecuted, totalFees,
                 consecutiveLosses, maxConsecutiveLosses, skippedTrades,
                 equityCurve, activePositions, currentDate>>

\* close any remaining open positions at the end of the simulation
CloseRemaining ==
  /\ pc = "close"
  /\ pc' = "metrics"
  /\ LET st == CloseLoop(
                 [currentCapital |-> currentCapital,
                  totalProfitLoss |-> totalProfitLoss,
                  tradeHistory |-> tradeHistory,
                  openPositions |-> openPositions],
                 activePositions, 1, R(currentData.currentPrice),
                 currentData.date, index)
     IN  /\ currentCapital' = st.currentCapital
         /\ totalProfitLoss' = st.totalProfitLoss
         /\ tradeHistory' = st.tradeHistory
         /\ openPositions' = st.openPositions
  /\ UNCHANGED <<single, params, results, goldPriceHistory, tradesExecuted, totalFees,
                 consecutiveLosses, maxConsecutiveLosses, skippedTrades,
                 equityCurve, activePositions, currentDate>>

\* results whose ledger lists the newest trade first
SetResultsNewestFirst ==
  /\ pc = "metrics"
  /\ pc' = "done"
  /\ LET successRate ==
           IF Len(tradeHistory) > 0
           THEN Div(R(Wins(tradeHistory)), R(Len(tradeHistory)))
           ELSE Zero
     IN  results' =
           [finalCapital |-> currentCapital,
            totalProfitLoss |-> totalProfitLoss,
            totalTrades |-> tradesExecuted,
            totalFees |-> totalFees,
            equityCurve |-> equityCurve,
            tradeHistory |->
              [i \in 1..Len(tradeHistory) |->
                 tradeHistory[Len(tradeHistory) + 1 - i]],
            successRate |-> successRate,
            maxDrawdown |-> calculateDrawdown(equityCurve),
            maxConsecutiveLosses |-> maxConsecutiveLosses,
            avgProfitPerTrade |->
              Div(totalProfitLoss,
                  R(IF tradesExecuted = 0 THEN 1 ELSE tradesExecuted)),
            openPositions |-> openPositions,
            skippedTrades |-> skippedTrades]
  /\ UNCHANGED <<single, params, goldPriceHistory, locals>>

\* calculate final metrics and setResults
SetResults ==
  /\ pc = "metrics"
  /\ pc' = "done"
  /\ LET successRate ==
           IF Len(tradeHistory) > 0
           THEN Div(R(Wins(tradeHistory)), R(Len(tradeHistory)))
           ELSE Zero
     IN  results' =
           [finalCapital |-> currentCapital,
            totalProfitLoss |-> totalProfitLoss,
            totalTrades |-> tradesExecuted,
            totalFees |-> totalFees,
            equityCurve |-> equityCurve,
            tradeHistory |-> tradeHistory,
            successRate |-> successRate,
            maxDrawdown |-> calculateDrawdown(equityCurve),
            maxConsecutiveLosses |-> maxConsecutiveLosses,
            avgProfitPerTrade |->
              Div(totalProfitLoss,
                  R(IF tradesExecuted = 0 THEN 1 ELSE tradesExecuted)),
            openPositions |-> openPositions,
            skippedTrades |-> skippedTrades]
  /\ UNCHANGED <<single, params, goldPriceHistory, locals>>

Next ==
  \/ RunSimulation
  \/ NextDay
  \/ SeriesEnd
  \/ DailyFees
  \/ ProcessPositions
  \/ CheckEntry
  \/ PushEquity
  \/ CloseRemaining
  \/ SetResults

Spec == Init /\ [][Next]_vars

---------------------------------------------------------------------------
(* Properties of the first TradingSimulator (specification Spec)           *)

RECURSIVE SumPnl(_)
SumPnl(history) ==
  IF history = <<>> THEN Zero
  ELSE Add(history[1].pnl, SumPnl(Tail(history)))

\* length of the longest run of consecutive losing trades of a ledger
RECURSIVE LongestLossRun(_, _, _)
LongestLossRun(history, run, best) ==
  IF history = <<>> THEN best
  ELSE IF Lt(history[1].pnl, Zero)
       THEN LongestLossRun(Tail(history), run + 1,
                           IF run + 1 > best THEN run + 1 ELSE best)
       ELSE LongestLossRun(Tail(history), 0, best)

ClosedBy(history, reason) ==
  {i \in 1..Len(history) : history[i].closedBy = reason}

\* C1: the returned finalCapital is investmentCapital plus the sum of the
\* ledger's pnl minus totalFees, and totalProfitLoss is that ledger sum.
C1_FinalCapitalIsLedgerSum ==
  results # null =>
    /\ results.finalCapital =
         Sub(Add(params.investmentCapital, SumPnl(results.tradeHistory)),
             results.totalFees)
    /\ results.totalProfitLoss = SumPnl(results.tradeHistory)

\* a finished run with a stop-closed trade, a liquidated trade and fees paid
C1_Witness ==
  /\ results # null
  /\ ClosedBy(results.tradeHistory, "stop") # {}
  /\ ClosedBy(results.tradeHistory, "end") # {}
  /\ Gt(results.totalFees, Zero)
  /\ results.finalCapital # params.investmentCapital

\* C3: after a run every opened position is in the ledger exactly once:
\* totalTrades = tradeHistory.length, no position is there twice, and every
\* position still open after the loop has been liquidated into the ledger.
C3_EveryPositionOnceInLedger ==
  results # null =>
    LET h == results.tradeHistory
    IN  /\ results.totalTrades = Len(h)
        /\ \A i, j \in 1..Len(h) : h[i].entryIndex = h[j].entryIndex => i = j
        /\ \A i \in 1..Len(h) : h[i].entryIndex \in 1..index
        /\ \A k \in 1..Len(activePositions) :
             \E i \in ClosedBy(h, "end") :
               h[i].entryIndex = activePositions[k].entryIndex

\* a finished run that closed one position by stop and liquidated another
C3_Witness ==
  /\ results # null
  /\ results.totalTrades >= 3
  /\ ClosedBy(results.tradeHistory, "stop") # {}
  /\ ClosedBy(results.tradeHistory, "end") # {}

\* C5: the returned maxConsecutiveLosses is the longest run of consecutive
\* losing trades of the returned ledger, liquidated trades included.
C5_MaxConsecutiveLossesOfLedger ==
  results # null =>
    results.maxConsecutiveLosses = LongestLossRun(results.tradeHistory, 0, 0)

\* C8: totalFees and every position's accumulated fees are never negative
\* and never decrease during a run.
C8_FeesNonNegative ==
  /\ Ge(totalFees, Zero)
  /\ \A k \in 1..Len(activePositions) :
       Ge(activePositions[k].accumulatedFees, Zero)

C8_FeesNeverDecrease ==
  [][pc # "idle" => Ge(totalFees', totalFees)]_vars

C8_FeesNonNegativeNeverDecrease ==
  [](C8_FeesNonNegative) /\ C8_FeesNeverDecrease

\* C9 as stated: the equity curve holds exactly one entry per distinct date
\* read after the first point.
C9_OneEntryPerDistinctDate ==
  \A i, j \in 1..Len(equityCurve) :
    equityCurve[i].date = equityCurve[j].date => i = j

\* C9 as amended: the equity curve holds exactly one entry per series point
\* processed after the first (a date that several points carry has several
\* entries; the point at which the loop breaks on exhausted capital has
\* none), dated as the points are, in non-decreasing date order.
C9_OneEntryPerProcessedPoint ==
  /\ pc \in {"idle", "loop"} => Len(equityCurve) = index
  /\ pc \in {"fees", "exits", "entry", "equity"} => Len(equityCurve) = index - 1
  /\ pc \in {"close", "metrics", "done"} =>
       \/ Len(equityCurve) = index
       \/ /\ Len(equityCurve) = index - 1   \* the loop broke at this point
          /\ Le(currentCapital, Zero)
          /\ Len(activePositions) = 0
  /\ \A i \in 1..Len(equityCurve) :
       equityCurve[i].date = goldPriceHistory[i + 1].date
  /\ \A i \in 1..(Len(equityCurve) - 1) :
       equityCurve[i].date <= equityCurve[i + 1].date

\* a curve of three entries, two of them for the same date
C9_Witness ==
  /\ pc = "done"
  /\ Len(equityCurve) >= 3
  /\ \E i \in 1..(Len(equityCurve) - 1) :
       equityCurve[i].date = equityCurve[i + 1].date

\* C10 as stated: at most one position is open at any point of a run.
C10_AtMostOneOpen == Len(activePositions) <= 1

\* C10 as amended: the entry rule is evaluated on every processed day, also
\* while positions are open: with capital of at least 100, a movement that
\* reaches the threshold and a base amount of at least 1 a further position
\* is opened, one per processed day at most.
C10_EntryEvaluatedEveryDay ==
  [][pc = "entry" =>
       /\ Len(activePositions') <= Len(activePositions) + 1
       /\ ( /\ Ge(currentCapital, R(MIN_TRADING_CAPITAL))
            /\ shouldOpenPosition(R(currentData.openingPrice),
                                  R(previousData.openingPrice),
                                  params.minPriceMovement)
            /\ Ge(BaseAmount(params.positionSizePercent, currentCapital), R(1))
          ) => Len(activePositions') = Len(activePositions) + 1]_vars

\* two positions open at once
C10_Witness == Len(activePositions) >= 2

---------------------------------------------------------------------------
(* README.md, second TradingSimulator: fees are accrued on every position  *)
(* each day, paid out of capital, and subtracted again from the proceeds   *)
(* when the position closes.  shouldOpenPosition, isStopLossTriggered,     *)
(* calculateDaysHeld and the ledger record are the same code as above.     *)

validateParams_v2(p) ==
  IF Le(p.investmentCapital, Zero) THEN FALSE
  ELSE IF Le(p.positionSizePercent, Zero) \/ Gt(p.positionSizePercent, R(100))
  THEN FALSE
  ELSE IF Le(p.leverage, Zero) \/ Gt(p.leverage, R(100)) THEN FALSE
  ELSE IF Le(p.stopLossDollar, Zero) THEN FALSE
  ELSE IF Lt(p.minPriceMovement, Zero) THEN FALSE
  ELSE IF Lt(p.dailyFeePercent, Zero) THEN FALSE
  ELSE TRUE

\* the drawdown in percent; the peak starts at equityCurve[0].equity, which
\* the caller must make sure exists
RECURSIVE DrawdownLoop_v2(_, _, _, _)
DrawdownLoop_v2(curve, i, peak, maxDrawdown) ==
  IF i > Len(curve) THEN maxDrawdown
  ELSE LET newPeak == IF Gt(curve[i].equity, peak) THEN curve[i].equity
                      ELSE peak
           drawdown == Mul(Div(Sub(newPeak, curve[i].equity), newPeak), R(100))
       IN  DrawdownLoop_v2(curve, i + 1, newPeak,
                           MathMax(maxDrawdown, drawdown))

calculateDrawdown_v2(curve) == DrawdownLoop_v2(curve, 1, curve[1].equity, Zero)

\* the fees accrued on every open position for a new date: the positions
\* after the loop and the sum totalDailyFees
RECURSIVE AccrueLoop_v2(_, _, _, _, _)
AccrueLoop_v2(positions, i, totalDailyFees, date, dailyFeePercent) ==
  IF i > Len(positions)
  THEN [activePositions |-> positions, totalDailyFees |-> totalDailyFees]
  ELSE LET position == positions[i]
           dailyFee ==
             Mul(Div(dailyFeePercent, R(100)), position.baseAmount)
       IN  IF position.lastFeeDate # date
           THEN AccrueLoop_v2(
                  [positions EXCEPT ![i].accumulatedFees = Add(@, dailyFee),
                                    ![i].lastFeeDate = date],
                  i + 1, Add(totalDailyFees, dailyFee), date, dailyFeePercent)
           ELSE AccrueLoop_v2(positions, i + 1, totalDailyFees, date,
                              dailyFeePercent)

\* what a closing position pays back: base amount and pnl less its fees
AmountToReturn_v2(position, pnl) ==
  MathMax(Zero, Sub(Add(position.baseAmount, pnl), position.accumulatedFees))

ExitStep_v2(st, i, day, p, idx) ==
  LET old == st.activePositions[i]
      position ==
        IF Gt(R(day.highestPrice), old.highestPrice)
        THEN [old EXCEPT !.highestPrice = R(day.highestPrice)]
        ELSE old
      currentPnL == PositionPnl(position, R(day.currentPrice))
      totalPositionValue == Add(position.baseAmount, currentPnL)
      netPositionValue == Sub(totalPositionValue, position.accumulatedFees)
      stopLossTriggered ==
        isStopLossTriggered(R(day.lowestPrice), position.highestPrice,
                            position.leveragedAmount, p.stopLossDollar,
                            p.useTrailingStop)
      percentageDrop == Div(p.stopLossDollar, position.leveragedAmount)
      exitPrice == IF stopLossTriggered
                   THEN Mul(position.highestPrice, Sub(R(1), percentageDrop))
                   ELSE R(day.currentPrice)
      pnl == IF stopLossTriggered THEN PositionPnl(position, exitPrice)
             ELSE currentPnL
      capital == Add(st.currentCapital, AmountToReturn_v2(position, pnl))
      losses == TrackLosses(pnl, st.consecutiveLosses,
                            st.maxConsecutiveLosses)
  IN  IF stopLossTriggered \/ Le(netPositionValue, Zero)
      THEN [activePositions |-> Splice(st.activePositions, i),
            currentCapital |-> capital,
            totalProfitLoss |-> Add(st.totalProfitLoss, pnl),
            tradeHistory |->
              Append(st.tradeHistory,
                     TradeRecord(position, day.date, exitPrice, pnl, capital,
                                 idx,
                                 IF stopLossTriggered THEN "stop" ELSE "fees")),
            consecutiveLosses |-> losses.consecutiveLosses,
            maxConsecutiveLosses |-> losses.maxConsecutiveLosses]
      ELSE [st EXCEPT !.activePositions[i] = position]

RECURSIVE ExitLoop_v2(_, _, _, _, _)
ExitLoop_v2(st, i, day, p, idx) ==
  IF i < 1 THEN st
  ELSE ExitLoop_v2(ExitStep_v2(st, i, day, p, idx), i - 1, day, p, idx)

RECURSIVE PositionsValue_v2(_, _)
PositionsValue_v2(positions, price) ==
  IF positions = <<>> THEN Zero
  ELSE LET pos == Head(positions)
           unrealizedPnL == PositionPnl(pos, price)
       IN  Add(PositionsValue_v2(Tail(positions), price),
               MathMax(Zero, Sub(Add(pos.baseAmount, unrealizedPnL),
                                 pos.accumulatedFees)))

RECURSIVE CloseLoop_v2(_, _, _, _, _, _)
CloseLoop_v2(st, positions, i, lastPrice, lastDate, idx) ==
  IF i > Len(positions) THEN st
  ELSE LET position == positions[i]
           pnl == PositionPnl(position, lastPrice)
           capital == Add(st.currentCapital, AmountToReturn_v2(position, pnl))
       IN  CloseLoop_v2(
             [currentCapital |-> capital,
              totalProfitLoss |-> Add(st.totalProfitLoss, pnl),
              tradeHistory |->
                Append(st.tradeHistory,
                       TradeRecord(position, lastDate, lastPrice, pnl,
                                   capital, idx, "end")),
              openPositions |->
                Append(st.openPositions,
                       [entryDate |-> position.entryDate,
                        entryPrice |-> position.entryPrice,
                        currentPrice |-> lastPrice,
                        highestPrice |-> position.highestPrice,
                        baseAmount |-> position.baseAmount,
                        leveragedAmount |-> position.leveragedAmount,
                        unrealizedPnl |-> pnl,
                        accumulatedFees |-> position.accumulatedFees,
                        capitalAtEntry |-> position.remainingCapitalAtEntry])],
             positions, i + 1, lastPrice, lastDate, idx)

RunSimulation_v2 ==
  /\ pc = "idle"
  /\ IF ~validateParams_v2(params)
     THEN /\ pc' = "rejected"
          /\ UNCHANGED locals
     ELSE /\ pc' = "loop"
          /\ currentCapital' = params.investmentCapital
          /\ totalProfitLoss' = Zero
          /\ tradesExecuted' = 0
          /\ totalFees' = Zero
          /\ consecutiveLosses' = 0
          /\ maxConsecutiveLosses' = 0
          /\ skippedTrades' = 0
          /\ equityCurve' = <<>>
          /\ tradeHistory' = <<>>
          /\ openPositions' = <<>>
          /\ activePositions' = <<>>
          /\ currentDate' = NoDate
  /\ UNCHANGED <<single, params, results, goldPriceHistory>>

\* the loop reads the next point of the series
NextDay_v2 ==
  /\ pc = "loop"
  /\ index < MaxDays
  /\ \E d \in {currentData.date, currentData.date + 1} :
       \E c \in Candles(d) :
         /\ goldPriceHistory' = Append(goldPriceHistory, c)
         /\ SameDates(goldPriceHistory') <= MaxSameDate
  /\ pc' = "fees"
  /\ UNCHANGED <<single, params, results, locals>>

SeriesEnd_v2 ==
  /\ pc = "loop"
  /\ pc' = "close"
  /\ UNCHANGED <<single, params, results, goldPriceHistory, locals>>

\* process fees first: accrue on every position, then deduct from capital
DailyFees_v2 ==
  /\ pc = "fees"
  /\ pc' = "exits"
  /\ IF currentDate # currentData.date
     THEN LET r == AccrueLoop_v2(activePositions, 1, Zero, currentData.date,
                                 params.dailyFeePercent)
          IN  /\ currentDate' = currentData.date
              /\ activePositions' = r.activePositions
              /\ IF Ge(currentCapital, r.totalDailyFees)
                 THEN /\ currentCapital' = Sub(currentCapital, r.totalDailyFees)
                      /\ totalFees' = Add(totalFees, r.totalDailyFees)
                 ELSE IF Gt(currentCapital, Zero)
                      THEN /\ totalFees' = Add(totalFees, currentCapital)
                           /\ currentCapital' = Zero
                      ELSE UNCHANGED <<currentCapital, totalFees>>
     ELSE UNCHANGED <<currentDate, activePositions, currentCapital, totalFees>>
  /\ UNCHANGED <<single, params, results, goldPriceHistory, totalProfitLoss,
                 tradesExecuted, consecutiveLosses, maxConsecutiveLosses,
                 skippedTrades, equityCurve, tradeHistory, openPositions>>

\* process all active positions, then leave the loop if no capital and no
\* positions are left
ProcessPositions_v2 ==
  /\ pc = "exits"
  /\ LET st == ExitLoop_v2(
                 [activePositions |-> activePositions,
                  currentCapital |-> currentCapital,
                  totalProfitLoss |-> totalProfitLoss,
                  tradeHistory |-> tradeHistory,
                  consecutiveLosses |-> consecutiveLosses,
                  maxConsecutiveLosses |-> maxConsecutiveLosses],
                 Len(activePositions), currentData, params, index)
     IN  /\ activePositions' = st.activePositions
         /\ currentCapital' = st.currentCapital
         /\ totalProfitLoss' = st.totalProfitLoss
         /\ tradeHistory' = st.tradeHistory
         /\ consecutiveLosses' = st.consecutiveLosses
         /\ maxConsecutiveLosses' = st.maxConsecutiveLosses
         /\ pc' = IF Le(st.currentCapital, Zero) /\ Len(st.activePositions) = 0
                  THEN "close" ELSE "entry"
  /\ UNCHANGED <<single, params, results, goldPriceHistory, tradesExecuted, totalFees,
                 skippedTrades, equityCurve, openPositions, currentDate>>

CheckEntry_v2 ==
  /\ pc = "entry"
  /\ pc' = "equity"
  /\ LET shouldOpen ==
           shouldOpenPosition(R(currentData.openingPrice),
                              R(previousData.openingPrice),
                              params.minPriceMovement)
         baseAmount == BaseAmount(params.positionSizePercent, currentCapital)
     IN  IF Ge(currentCapital, R(MIN_TRADING_CAPITAL))
         THEN IF shouldOpen /\ Ge(baseAmount, R(1))
              THEN /\ activePositions' =
                        Append(activePositions,
                               [NewPosition(currentData, baseAmount,
                                            params.leverage, currentCapital,
                                            index)
                                  EXCEPT !.highestPrice =
                                           R(currentData.openingPrice)])
                   /\ currentCapital' = Sub(currentCapital, baseAmount)
                   /\ tradesExecuted' = tradesExecuted + 1
                   /\ UNCHANGED skippedTrades
              ELSE UNCHANGED <<activePositions, currentCapital,
                               tradesExecuted, skippedTrades>>
         ELSE IF shouldOpen
              THEN /\ skippedTrades' = skippedTrades + 1
                   /\ UNCHANGED <<activePositions, currentCapital,
                                  tradesExecuted>>
              ELSE UNCHANGED <<activePositions, currentCapital,
                               tradesExecuted, skippedTrades>>
  /\ UNCHANGED <<single, params, results, goldPriceHistory, totalProfitLoss, totalFees,
                 consecutiveLosses, maxConsecutiveLosses, equityCurve,
                 tradeHistory, openPositions, currentDate>>

PushEquity_v2 ==
  /\ pc = "equity"
  /\ pc' = "loop"
  /\ equityCurve' =
       Append(equityCurve,
              [date |-> currentData.date,
               equity |-> Add(currentCapital,
                              PositionsValue_v2(activePositions,
                                                R(currentData.currentPrice)))])
  /\ UNCHANGED <<single, params, results, goldPriceHistory, currentCapital,
                 totalProfitLoss, tradesExecuted, totalFees, consecutiveLosses,
                 maxConsecutiveLosses, skippedTrades, tradeHistory,
                 openPositions, activePositions, currentDate>>

CloseRemaining_v2 ==
  /\ pc = "close"
  /\ pc' = "metrics"
  /\ LET st == CloseLoop_v2(
                 [currentCapital |-> currentCapital,
                  totalProfitLoss |-> totalProfitLoss,
                  tradeHistory |-> tradeHistory,
                  openPositions |-> openPositions],
                 activePositions, 1, R(currentData.currentPrice),
                 currentData.date, index)
     IN  /\ currentCapital' = st.currentCapital
         /\ totalProfitLoss' = st.totalProfitLoss
         /\ tradeHistory' = st.tradeHistory
         /\ openPositions' = st.openPositions
  /\ UNCHANGED <<single, params, results, goldPriceHistory, tradesExecuted, totalFees,
                 consecutiveLosses, maxConsecutiveLosses, skippedTrades,
                 equityCurve, activePositions, currentDate>>

\* final metrics and setResults; calculateDrawdown reads equityCurve[0].equity
\* first, which throws a TypeError on an empty curve, and runSimulation ends
\* there without results
SetResults_v2 ==
  /\ pc = "metrics"
  /\ IF Len(equityCurve) = 0
     THEN /\ pc' = "threw"
          /\ UNCHANGED results
     ELSE /\ pc' = "done"
          /\ results' =
               [finalCapital |-> currentCapital,
                totalProfitLoss |-> totalProfitLoss,
                totalTrades |-> tradesExecuted,
                totalFees |-> totalFees,
                equityCurve |-> equityCurve,
                tradeHistory |-> tradeHistory,
                successRate |->
                  IF Len(tradeHistory) > 0
                  THEN Div(R(Wins(tradeHistory)), R(Len(tradeHistory)))
                  ELSE Zero,
                maxDrawdown |-> calculateDrawdown_v2(equityCurve),
                maxConsecutiveLosses |-> maxConsecutiveLosses,
                avgProfitPerTrade |->
                  Div(totalProfitLoss,
                      R(IF tradesExecuted = 0 THEN 1 ELSE tradesExecuted)),
                openPositions |-> openPositions,
                skippedTrades |-> skippedTrades]
  /\ UNCHANGED <<single, params, goldPriceHistory, locals>>

NextFee ==
  \/ RunSimulation_v2
  \/ NextDay_v2
  \/ SeriesEnd_v2
  \/ DailyFees_v2
  \/ ProcessPositions_v2
  \/ CheckEntry_v2
  \/ PushEquity_v2
  \/ CloseRemaining_v2
  \/ SetResults_v2

SpecFee == Init /\ [][NextFee]_vars

\* no closing position had its proceeds floored at zero by Math.max
NoProceedsFloored(history) ==
  \A i \in 1..Len(history) :
    Ge(Sub(Add(history[i].baseAmount, history[i].pnl), history[i].fees), Zero)

\* C2: in the second simulator every dollar of fee leaves the capital exactly
\* once (on the day it accrues or out of the proceeds at close, never both),
\* so after any run
\* finalCapital = investmentCapital + sum(trade.pnl) - totalFees.
\* Stated for the runs in which Math.max(0, ...) floored no proceeds, so that
\* only the fees can make the two sides differ.
C2_FeesCountedOnce ==
  (results # null /\ NoProceedsFloored(results.tradeHistory)) =>
    results.finalCapital =
      Sub(Add(params.investmentCapital, SumPnl(results.tradeHistory)),
          results.totalFees)

---------------------------------------------------------------------------
(* src/App.tsx (long only, take profit and trailing stop) and src/test.tsx *)
(* (long and short): one open position at a time, a flat daily fee.  The   *)
(* two files share validateParams, calculateDrawdown and the head of the   *)
(* loop word for word; they differ in the entry, in the management of the  *)
(* open position and in what follows the loop.                             *)

\* the prices a point of lastTwoYearsGoldPriceData may quote
SinglePrices == {75, 100, 125}

Points(date) == {[date |-> date, price |-> q] : q \in SinglePrices}

SingleParamSpace ==
  [investmentCapital : {R(100)},
   positionSize : {R(50)},
   leverage : {R(10)},
   stopLoss : {R(100)},
   profitTarget : {R(100)},
   minPriceMovement : {R(1)},
   dailyFees : {R(2), R(150)}]

\* index of the point being processed, the point and the price before it
index_s == Len(lastTwoYearsGoldPriceData) - 1
point == lastTwoYearsGoldPriceData[Len(lastTwoYearsGoldPriceData)]
previousPrice ==
  lastTwoYearsGoldPriceData[Len(lastTwoYearsGoldPriceData) - 1].price

validateParams_app(p) ==
  IF Le(p.investmentCapital, Zero) THEN FALSE
  ELSE IF Le(p.positionSize, Zero) \/ Gt(p.positionSize, R(100)) THEN FALSE
  ELSE IF Le(p.leverage, Zero) \/ Gt(p.leverage, R(100)) THEN FALSE
  ELSE IF Le(p.stopLoss, Zero) THEN FALSE
  ELSE IF Le(p.profitTarget, Zero) THEN FALSE
  ELSE IF Le(p.minPriceMovement, Zero) THEN FALSE
  ELSE IF Lt(p.dailyFees, Zero) THEN FALSE
  ELSE TRUE

\* the drawdown in percent; the peak starts at equityCurve[0].equity, which
\* the caller must make sure exists
RECURSIVE DrawdownLoop_app(_, _, _, _)
DrawdownLoop_app(curve, i, peak, maxDrawdown) ==
  IF i > Len(curve) THEN maxDrawdown
  ELSE LET newPeak == IF Gt(curve[i].equity, peak) THEN curve[i].equity
                      ELSE peak
           drawdown == Mul(Div(Sub(newPeak, curve[i].equity), newPeak), R(100))
       IN  DrawdownLoop_app(curve, i + 1, newPeak,
                            MathMax(maxDrawdown, drawdown))

calculateDrawdown_app(curve) ==
  DrawdownLoop_app(curve, 1, curve[1].equity, Zero)

shouldEnterLongPosition(currentPrice, prevPrice, threshold) ==
  LET priceMovement ==
        Mul(Div(Sub(currentPrice, prevPrice), prevPrice), R(100))
  IN  Ge(priceMovement, threshold)

calculatePnL(entryPrice, currentPrice, leveragedAmount) ==
  LET priceChange == Div(Sub(currentPrice, entryPrice), entryPrice)
  IN  Mul(leveragedAmount, priceChange)

\* test.tsx: a move of the threshold size either way opens a trade
shouldEnterTrade(currentPrice, prevPrice, threshold) ==
  LET priceMovement ==
        Mul(Div(Sub(currentPrice, prevPrice), prevPrice), R(100))
  IN  [shouldEnter |-> Ge(MathAbs(priceMovement), threshold),
       type |-> IF Gt(priceMovement, Zero) THEN "long" ELSE "short"]

InitSingle ==
  /\ program \in {"App.tsx", "test.tsx"}
  /\ params \in SingleParamSpace
  /\ results = null
  /\ pc = "idle"
  /\ lastTwoYearsGoldPriceData \in {<<q>> : q \in Points(1)}
  /\ openPosition = null
  /\ lastTradeDate = NoDate
  /\ goldPriceHistory = <<>>
  /\ currentCapital = Zero
  /\ totalProfitLoss = Zero
  /\ tradesExecuted = 0
  /\ totalFees = Zero
  /\ consecutiveLosses = 0
  /\ maxConsecutiveLosses = 0
  /\ skippedTrades = 0
  /\ equityCurve = <<>>
  /\ tradeHistory = <<>>
  /\ openPositions = <<>>
  /\ activePositions = <<>>
  /\ currentDate = NoDate

\* what the single-position simulators never touch
multi == <<goldPriceHistory, skippedTrades, openPositions, activePositions,
           currentDate>>

RunSimulation_app ==
  /\ pc = "idle"
  /\ IF ~validateParams_app(params)
     THEN /\ pc' = "rejected"
          /\ UNCHANGED <<currentCapital, totalProfitLoss, tradesExecuted,
                         totalFees, consecutiveLosses, maxConsecutiveLosses,
                         equityCurve, tradeHistory, openPosition,
                         lastTradeDate>>
     ELSE /\ pc' = "loop"
          /\ currentCapital' = params.investmentCapital
          /\ totalProfitLoss' = Zero
          /\ tradesExecuted' = 0
          /\ totalFees' = Zero
          /\ consecutiveLosses' = 0
          /\ maxConsecutiveLosses' = 0
          /\ equityCurve' = <<>>
          /\ tradeHistory' = <<>>
          /\ openPosition' = null
          /\ lastTradeDate' = NoDate
  /\ UNCHANGED <<multi, program, params, results, lastTwoYearsGoldPriceData>>

\* the loop reads the next point and leaves at once when the capital is gone
NextPoint_app ==
  /\ pc = "loop"
  /\ index_s < MaxDays
  /\ \E d \in {point.date, point.date + 1} :
       \E q \in Points(d) :
         lastTwoYearsGoldPriceData' = Append(lastTwoYearsGoldPriceData, q)
  /\ pc' = IF Le(currentCapital, Zero) THEN "broke" ELSE "fees"
  /\ UNCHANGED <<multi, program, params, results, openPosition, lastTradeDate,
                 currentCapital, totalProfitLoss, tradesExecuted, totalFees,
                 consecutiveLosses, maxConsecutiveLosses, equityCurve,
                 tradeHistory>>

\* index has reached lastTwoYearsGoldPriceData.length
SeriesEnd_app ==
  /\ pc = "loop"
  /\ pc' = "ended"
  /\ UNCHANGED <<multi, single, params, results, currentCapital,
                 totalProfitLoss, tradesExecuted, totalFees, consecutiveLosses,
                 maxConsecutiveLosses, equityCurve, tradeHistory>>

\* apply daily fees: once per date, or leave the loop when they cannot be paid
DailyFees_app ==
  /\ pc = "fees"
  /\ IF lastTradeDate # point.date
     THEN IF Ge(currentCapital, params.dailyFees)
          THEN /\ currentCapital' = Sub(currentCapital, params.dailyFees)
               /\ totalFees' = Add(totalFees, params.dailyFees)
               /\ lastTradeDate' = point.date
               /\ pc' = "entry"
          ELSE /\ pc' = "broke"
               /\ UNCHANGED <<currentCapital, totalFees, lastTradeDate>>
     ELSE /\ pc' = "entry"
          /\ UNCHANGED <<currentCapital, totalFees, lastTradeDate>>
  /\ UNCHANGED <<multi, program, params, results, lastTwoYearsGoldPriceData,
                 openPosition, totalProfitLoss, tradesExecuted,
                 consecutiveLosses, maxConsecutiveLosses, equityCurve,
                 tradeHistory>>

\* App.tsx: check for trade entry, long only
Entry_app ==
  /\ pc = "entry"
  /\ program = "App.tsx"
  /\ pc' = "manage"
  /\ IF openPosition = null /\ Gt(currentCapital, Zero)
        /\ shouldEnterLongPosition(R(point.price), R(previousPrice),
                                   params.minPriceMovement)
     THEN LET baseAmount ==
                Mul(Div(params.positionSize, R(100)), currentCapital)
              leveragedAmount == Mul(baseAmount, params.leverage)
          IN  /\ openPosition' =
                   [entryPrice |-> R(point.price),
                    entryDate |-> point.date,
                    baseAmount |-> baseAmount,
                    leveragedAmount |-> leveragedAmount,
                    highestPrice |-> R(point.price),
                    type |-> "long"]
              /\ tradesExecuted' = tradesExecuted + 1
     ELSE UNCHANGED <<openPosition, tradesExecuted>>
  /\ UNCHANGED <<multi, program, params, results, lastTwoYearsGoldPriceData,
                 lastTradeDate, currentCapital, totalProfitLoss, totalFees,
                 consecutiveLosses, maxConsecutiveLosses, equityCurve,
                 tradeHistory>>

\* App.tsx: manage the open position: take profit or trailing stop
Manage_app ==
  /\ pc = "manage"
  /\ program = "App.tsx"
  /\ pc' = "equity"
  /\ IF openPosition # null
     THEN LET position ==
                IF Gt(R(point.price), openPosition.highestPrice)
                THEN [openPosition EXCEPT !.highestPrice = R(point.price)]
                ELSE openPosition
              pnl == calculatePnL(position.entryPrice, R(point.price),
                                  position.leveragedAmount)
              takeProfitTarget == params.profitTarget
              highestPnL == calculatePnL(position.entryPrice,
                                         position.highestPrice,
                                         position.leveragedAmount)
              currentPnLFromHighest == Sub(pnl, highestPnL)
              stopLossTriggered ==
                Le(currentPnLFromHighest, Neg(params.stopLoss))
              losses == TrackLosses(pnl, consecutiveLosses,
                                    maxConsecutiveLosses)
          IN  IF Ge(pnl, takeProfitTarget) \/ stopLossTriggered
              THEN /\ currentCapital' = Add(currentCapital, pnl)
                   /\ totalProfitLoss' = Add(totalProfitLoss, pnl)
                   /\ tradeHistory' =
                        Append(tradeHistory,
                               [entry |-> position.entryDate,
                                exit |-> point.date,
                                entryPrice |-> position.entryPrice,
                                exitPrice |-> R(point.price),
                                highestPrice |-> position.highestPrice,
                                baseAmount |-> position.baseAmount,
                                leveragedAmount |-> position.leveragedAmount,
                                pnl |-> pnl,
                                type |-> "long",
                                exitReason |->
                                  IF Ge(pnl, takeProfitTarget)
                                  THEN "take profit" ELSE "stop loss"])
                   /\ consecutiveLosses' = losses.consecutiveLosses
                   /\ maxConsecutiveLosses' = losses.maxConsecutiveLosses
                   /\ openPosition' = null
              ELSE /\ openPosition' = position
                   /\ UNCHANGED <<currentCapital, totalProfitLoss,
                                  tradeHistory, consecutiveLosses,
                                  maxConsecutiveLosses>>
     ELSE UNCHANGED <<openPosition, currentCapital, totalProfitLoss,
                      tradeHistory, consecutiveLosses, maxConsecutiveLosses>>
  /\ UNCHANGED <<multi, program, params, results, lastTwoYearsGoldPriceData,
                 lastTradeDate, tradesExecuted, totalFees, equityCurve>>

\* test.tsx: check for trade entry, long or short
Entry_test ==
  /\ pc = "entry"
  /\ program = "test.tsx"
  /\ pc' = "manage"
  /\ LET signal == shouldEnterTrade(R(point.price), R(previousPrice),
                                    params.minPriceMovement)
         positionSize ==
           MathMin(Mul(Div(params.positionSize, R(100)), currentCapital),
                   Mul(currentCapital, Div(params.leverage, R(100))))
     IN  IF openPosition = null /\ Gt(currentCapital, Zero)
            /\ signal.shouldEnter
         THEN /\ openPosition' =
                   [entryPrice |-> R(point.price),
                    entryDate |-> point.date,
                    marketValue |-> Mul(positionSize, params.leverage),
                    type |-> signal.type]
              /\ tradesExecuted' = tradesExecuted + 1
         ELSE UNCHANGED <<openPosition, tradesExecuted>>
  /\ UNCHANGED <<multi, program, params, results, lastTwoYearsGoldPriceData,
                 lastTradeDate, currentCapital, totalProfitLoss, totalFees,
                 consecutiveLosses, maxConsecutiveLosses, equityCurve,
                 tradeHistory>>

\* test.tsx: manage the open position: stop loss or profit target
Manage_test ==
  /\ pc = "manage"
  /\ program = "test.tsx"
  /\ pc' = "equity"
  /\ IF openPosition # null
     THEN LET priceChange == Sub(R(point.price), openPosition.entryPrice)
              adjustedPriceChange ==
                IF openPosition.type = "long" THEN priceChange
                ELSE Neg(priceChange)
              percentageChange ==
                Mul(Div(adjustedPriceChange, openPosition.entryPrice), R(100))
              pnl == Div(Mul(openPosition.marketValue, percentageChange),
                         R(100))
              losses == TrackLosses(pnl, consecutiveLosses,
                                    maxConsecutiveLosses)
          IN  IF Ge(MathAbs(pnl), params.stopLoss)
                 \/ Ge(pnl, params.profitTarget)
              THEN /\ currentCapital' = Add(currentCapital, pnl)
                   /\ totalProfitLoss' = Add(totalProfitLoss, pnl)
                   /\ tradeHistory' =
                        Append(tradeHistory,
                               [entry |-> openPosition.entryDate,
                                exit |-> point.date,
                                entryPrice |-> openPosition.entryPrice,
                                exitPrice |-> R(point.price),
                                pnl |-> pnl,
                                type |-> openPosition.type])
                   /\ consecutiveLosses' = losses.consecutiveLosses
                   /\ maxConsecutiveLosses' = losses.maxConsecutiveLosses
                   /\ openPosition' = null
              ELSE UNCHANGED <<openPosition, currentCapital, totalProfitLoss,
                               tradeHistory, consecutiveLosses,
                               maxConsecutiveLosses>>
     ELSE UNCHANGED <<openPosition, currentCapital, totalProfitLoss,
                      tradeHistory, consecutiveLosses, maxConsecutiveLosses>>
  /\ UNCHANGED <<multi, program, params, results, lastTwoYearsGoldPriceData,
                 lastTradeDate, tradesExecuted, totalFees, equityCurve>>

\* the equity point of the day: the capital
PushEquity_app ==
  /\ pc = "equity"
  /\ pc' = "loop"
  /\ equityCurve' =
       Append(equityCurve, [date |-> point.date, equity |-> currentCapital])
  /\ UNCHANGED <<multi, single, params, results, currentCapital,
                 totalProfitLoss, tradesExecuted, totalFees, consecutiveLosses,
                 maxConsecutiveLosses, tradeHistory>>

\* the results either file builds from its own fields
SingleResults ==
  [final_capital |-> currentCapital,
   total_profit_loss |-> totalProfitLoss,
   total_trades |-> tradesExecuted,
   total_fees |-> totalFees,
   equity_curve |-> equityCurve,
   trade_history |-> tradeHistory,
   success_rate |->
     IF Len(tradeHistory) > 0
     THEN Div(R(Wins(tradeHistory)), R(Len(tradeHistory)))
     ELSE Zero,
   max_drawdown |-> calculateDrawdown_app(equityCurve),
   max_consecutive_losses |-> maxConsecutiveLosses,
   avg_profit_per_trade |->
     Div(totalProfitLoss, R(IF tradesExecuted = 0 THEN 1 ELSE tradesExecuted))]

\* App.tsx after the loop: a position still open is reported as
\* open_position, marked at the last price of the series (after a break the
\* series may go on, so that price is any quoted price); then the metrics and
\* setResults.  calculateDrawdown reads equityCurve[0].equity first, which
\* throws a TypeError on an empty curve, and runSimulation ends there.
Finish_app ==
  /\ pc \in {"ended", "broke"}
  /\ program = "App.tsx"
  /\ \E lastPrice \in IF pc = "ended" THEN {point.price} ELSE SinglePrices :
       LET finalOpenPosition ==
             IF openPosition # null
             THEN [entryDate |-> openPosition.entryDate,
                   entryPrice |-> openPosition.entryPrice,
                   currentPrice |-> R(lastPrice),
                   highestPrice |-> openPosition.highestPrice,
                   baseAmount |-> openPosition.baseAmount,
                   leveragedAmount |-> openPosition.leveragedAmount,
                   currentPnL |->
                     calculatePnL(openPosition.entryPrice, R(lastPrice),
                                  openPosition.leveragedAmount)]
             ELSE null
       IN  IF Len(equityCurve) = 0
           THEN /\ pc' = "threw"
                /\ UNCHANGED results
           ELSE /\ pc' = "done"
                /\ results' =
                     [f \in DOMAIN SingleResults \cup {"open_position"} |->
                        IF f = "open_position" THEN finalOpenPosition
                        ELSE SingleResults[f]]
  /\ UNCHANGED <<multi, single, params, currentCapital, totalProfitLoss,
                 tradesExecuted, totalFees, consecutiveLosses,
                 maxConsecutiveLosses, equityCurve, tradeHistory>>

\* test.tsx after the loop: the metrics and setResults, nothing else
Finish_test ==
  /\ pc \in {"ended", "broke"}
  /\ program = "test.tsx"
  /\ IF Len(equityCurve) = 0
     THEN /\ pc' = "threw"
          /\ UNCHANGED results
     ELSE /\ pc' = "done"
          /\ results' = SingleResults
  /\ UNCHANGED <<multi, single, params, currentCapital, totalProfitLoss,
                 tradesExecuted, totalFees, consecutiveLosses,
                 maxConsecutiveLosses, equityCurve, tradeHistory>>

NextSingle ==
  \/ RunSimulation_app
  \/ NextPoint_app
  \/ SeriesEnd_app
  \/ DailyFees_app
  \/ Entry_app
  \/ Manage_app
  \/ Entry_test
  \/ Manage_test
  \/ PushEquity_app
  \/ Finish_app
  \/ Finish_test

SpecSingle == InitSingle /\ [][NextSingle]_vars

\* C4: in App.tsx and test.tsx a position still open when the day loop ends is
\* force-closed at the last price: nothing stays open, its pnl is in the
\* capital and in the total, and it is in the ledger, so that total_trades
\* equals trade_history.length.
C4_OpenPositionForceClosed ==
  results # null =>
    /\ results.total_trades = Len(results.trade_history)
    /\ results.total_profit_loss = SumPnl(results.trade_history)
    /\ results.final_capital =
         Sub(Add(params.investmentCapital, results.total_profit_loss),
             results.total_fees)
    /\ openPosition = null

\* C6: a run whose equity curve is empty (the first day's fee exceeds the
\* capital, or the series has fewer than two points) completes without a
\* thrown error and reports the default maxDrawdown 0.
C6_EmptyCurveDefaults ==
  (pc \in {"done", "threw"} /\ Len(equityCurve) = 0) =>
    (pc = "done" /\ results # null /\ results.max_drawdown = Zero)

---------------------------------------------------------------------------
(* src/unnamed/part_001 (the utilities): calculatePerformanceMetrics over  *)
(* a trade ledger and an equity curve.                                     *)

\* longest ledger and longest equity curve handed to the utilities
MetricsMaxLen == 3

MetricsPnl == {-10, 0, 10}
MetricsEquity == {100, 200}

\* longest trade ledger handed to the utilities
MetricsMaxLedger == 5

Ledgers ==
  UNION {[1..n -> {[pnl |-> R(x)] : x \in MetricsPnl}] :
           n \in 0..MetricsMaxLedger}

Curves ==
  UNION {{[i \in 1..n |-> [date |-> i, equity |-> R(e[i])]] :
            e \in [1..n -> MetricsEquity]} : n \in 0..MetricsMaxLen}

\* the integer square root of m, between lo and hi
RECURSIVE ISqrt(_, _, _)
ISqrt(m, lo, hi) ==
  IF hi - lo <= 1 THEN lo
  ELSE LET mid == (lo + hi) \div 2
       IN  IF mid * mid <= m THEN ISqrt(m, mid, hi) ELSE ISqrt(m, lo, mid)

\* Math.sqrt: NaN below zero, exact at 0 and Infinity, and elsewhere the root
\* to two decimals (never rounded down to 0, as the root of a positive
\* double is positive)
MathSqrt(x) ==
  IF IsNaN(x) \/ Lt(x, Zero) THEN NaN
  ELSE IF x = Infinity THEN Infinity
  ELSE IF x = Zero THEN Zero
  ELSE LET m == (x[1] * 10000) \div x[2]
           k == ISqrt(m, 0, IF m < 46340 THEN m + 1 ELSE 46340)
       IN  Num(IF k = 0 THEN 1 ELSE k, 100)

RECURSIVE SumOf(_)
SumOf(numbers) ==
  IF numbers = <<>> THEN Zero
  ELSE Add(numbers[1], SumOf(Tail(numbers)))

\* a count in which a trade with pnl = 0 extends the run of losses
RECURSIVE MaxConsecutiveLoopFlatCounts(_, _, _, _)
MaxConsecutiveLoopFlatCounts(history, i, current, maxConsecutive) ==
  IF i > Len(history) THEN maxConsecutive
  ELSE IF Le(history[i].pnl, Zero)
       THEN MaxConsecutiveLoopFlatCounts(history, i + 1, current + 1,
                                         IF current + 1 > maxConsecutive
                                         THEN current + 1 ELSE maxConsecutive)
       ELSE MaxConsecutiveLoopFlatCounts(history, i + 1, 0, maxConsecutive)

RECURSIVE MaxConsecutiveLoop(_, _, _, _)
MaxConsecutiveLoop(history, i, current, maxConsecutive) ==
  IF i > Len(history) THEN maxConsecutive
  ELSE IF Lt(history[i].pnl, Zero)
       THEN MaxConsecutiveLoop(history, i + 1, current + 1,
                               IF current + 1 > maxConsecutive
                               THEN current + 1 ELSE maxConsecutive)
       ELSE MaxConsecutiveLoop(history, i + 1, 0, maxConsecutive)

calculateMaxConsecutiveLosses(history) == MaxConsecutiveLoop(history, 1, 0, 0)

\* the drawdown loop of calculatePerformanceMetrics: peak starts at -Infinity
RECURSIVE MetricsDrawdownLoop(_, _, _, _)
MetricsDrawdownLoop(curve, i, peak, maxDrawdown) ==
  IF i > Len(curve) THEN maxDrawdown
  ELSE LET newPeak == IF Gt(curve[i].equity, peak) THEN curve[i].equity
                      ELSE peak
           drawdown == Div(Sub(newPeak, curve[i].equity), newPeak)
       IN  MetricsDrawdownLoop(curve, i + 1, newPeak,
                               IF Gt(drawdown, maxDrawdown) THEN drawdown
                               ELSE maxDrawdown)

calculatePerformanceMetrics(history, curve) ==
  LET wins == SelectSeq(history, LAMBDA t : Gt(t.pnl, Zero))
      losses == SelectSeq(history, LAMBDA t : Lt(t.pnl, Zero))
      winRate == Div(R(Len(wins)), R(Len(history)))
      averageWin == IF Len(wins) > 0 THEN Div(SumPnl(wins), R(Len(wins)))
                    ELSE Zero
      averageLoss == IF Len(losses) > 0
                     THEN MathAbs(Div(SumPnl(losses), R(Len(losses))))
                     ELSE Zero
      maxDrawdown == MetricsDrawdownLoop(curve, 1, NegInfinity, Zero)
      returns == [i \in 1..Len(curve) |->
                    IF i = 1 THEN Zero
                    ELSE Div(Sub(curve[i].equity, curve[i - 1].equity),
                             curve[i - 1].equity)]
      meanReturn == Div(SumOf(returns), R(Len(returns)))
      deviations == [i \in 1..Len(returns) |->
                       Mul(Sub(returns[i], meanReturn),
                           Sub(returns[i], meanReturn))]
      stdReturn == MathSqrt(Div(SumOf(deviations), R(Len(returns))))
      sharpeRatio == Mul(Div(meanReturn, stdReturn), MathSqrt(R(252)))
  IN  [maxDrawdown |-> maxDrawdown,
       sharpeRatio |-> sharpeRatio,
       winRate |-> winRate,
       averageWin |-> averageWin,
       averageLoss |-> averageLoss,
       profitFactor |-> Div(Mul(averageWin, winRate),
                            Mul(averageLoss, Sub(R(1), winRate))),
       maxConsecutiveLosses |-> calculateMaxConsecutiveLosses(history),
       dailyReturnVolatility |->
         Mul(Mul(stdReturn, MathSqrt(R(252))), R(100))]

InitMetrics ==
  /\ program = "utils.ts"
  /\ params = null
  /\ results = null
  /\ pc = "idle"
  /\ tradeHistory \in Ledgers
  /\ equityCurve \in Curves
  /\ lastTwoYearsGoldPriceData = <<>>
  /\ openPosition = null
  /\ lastTradeDate = NoDate
  /\ goldPriceHistory = <<>>
  /\ currentCapital = Zero
  /\ totalProfitLoss = Zero
  /\ tradesExecuted = 0
  /\ totalFees = Zero
  /\ consecutiveLosses = 0
  /\ maxConsecutiveLosses = 0
  /\ skippedTrades = 0
  /\ openPositions = <<>>
  /\ activePositions = <<>>
  /\ currentDate = NoDate

\* a call of calculatePerformanceMetrics(tradeHistory, equityCurve)
CallPerformanceMetrics ==
  /\ pc = "idle"
  /\ pc' = "done"
  /\ results' = calculatePerformanceMetrics(tradeHistory, equityCurve)
  /\ UNCHANGED <<multi, single, params, currentCapital, totalProfitLoss,
                 tradesExecuted, totalFees, consecutiveLosses,
                 maxConsecutiveLosses, equityCurve, tradeHistory>>

NextMetrics == CallPerformanceMetrics

SpecMetrics == InitMetrics /\ [][NextMetrics]_vars

\* the ledgers and curves the edge cases are about
NoLosingTrades(history) == \A i \in 1..Len(history) : ~Lt(history[i].pnl, Zero)
ConstantCurve(curve) ==
  \A i \in 1..Len(curve) : curve[i].equity = curve[1].equity

\* C7: with an empty ledger, with no losing trade (all wins included), or with
\* a constant or single-point equity curve, every metric that
\* calculatePerformanceMetrics returns is a defined finite number, never the
\* NaN or Infinity of a division by zero.
C7_MetricsDefined ==
  (/\ results # null
   /\ \/ NoLosingTrades(tradeHistory)
      \/ (Len(equityCurve) >= 1 /\ ConstantCurve(equityCurve))) =>
    \A f \in {"maxDrawdown", "sharpeRatio", "winRate", "averageWin",
              "averageLoss", "profitFactor", "dailyReturnVolatility"} :
      IsFinite(results[f])

---------------------------------------------------------------------------
(* README.md, first TradingSimulator: the validation guard of runSimulation *)
(* over what the form can hold.  Every number field is set by              *)
(* parseFloat(e.target.value), so a cleared field holds NaN.               *)

ValidateParamSpace ==
  [investmentCapital : {R(0), R(200), NaN},
   positionSizePercent : {R(0), R(1), R(101)},
   leverage : {R(0), R(200), R(201)},
   stopLossDollar : {R(0), R(200)},
   minPriceMovement : {R(-1), R(0)},
   dailyFeePercent : {R(-1), R(0)},
   useTrailingStop : {TRUE}]
  \cup
  [investmentCapital : {R(0), R(200), NaN},
   positionSizePercent : {R(100)},
   leverage : {R(10)},
   stopLossDollar : {R(200)},
   minPriceMovement : {R(0)},
   dailyFeePercent : {R(10)},
   useTrailingStop : {TRUE}]

\* results stored by an earlier run (investmentCapital 200, no trade)
StoredResults ==
  [finalCapital |-> R(200),
   totalProfitLoss |-> Zero,
   totalTrades |-> 0,
   totalFees |-> Zero,
   equityCurve |-> <<[date |-> 2, equity |-> R(200)]>>,
   tradeHistory |-> <<>>,
   successRate |-> Zero,
   maxDrawdown |-> Zero,
   maxConsecutiveLosses |-> 0,
   avgProfitPerTrade |-> Zero,
   openPositions |-> <<>>,
   skippedTrades |-> 0]

\* the component with any form content, before or after an earlier run
InitValidate ==
  /\ params \in ValidateParamSpace
  /\ results \in {null, StoredResults}
  /\ pc = "idle"
  /\ goldPriceHistory \in {<<c>> : c \in FirstPoints}
  /\ currentCapital = Zero
  /\ totalProfitLoss = Zero
  /\ tradesExecuted = 0
  /\ totalFees = Zero
  /\ consecutiveLosses = 0
  /\ maxConsecutiveLosses = 0
  /\ skippedTrades = 0
  /\ equityCurve = <<>>
  /\ tradeHistory = <<>>
  /\ openPositions = <<>>
  /\ activePositions = <<>>
  /\ currentDate = NoDate
  /\ program = "README.md"
  /\ lastTwoYearsGoldPriceData = <<>>
  /\ openPosition = null
  /\ lastTradeDate = NoDate

SpecValidate == InitValidate /\ [][Next]_vars

\* the params the validation is said to accept
C11_AcceptedParams(p) ==
  /\ Gt(p.investmentCapital, Zero)
  /\ Gt(p.positionSizePercent, Zero) /\ Le(p.positionSizePercent, R(100))
  /\ Gt(p.leverage, Zero) /\ Le(p.leverage, R(200))
  /\ Gt(p.stopLossDollar, Zero)
  /\ Ge(p.minPriceMovement, Zero)
  /\ Ge(p.dailyFeePercent, Zero)

\* C11: runSimulation starts the simulation exactly for the params with
\* investmentCapital > 0, 0 < positionSizePercent <= 100, 0 < leverage <= 200,
\* stopLossDollar > 0, minPriceMovement >= 0 and dailyFeePercent >= 0; for any
\* other params it aborts before any simulation work, leaving the stored
\* results and every local as they were.
C11_InvalidParamsAbort ==
  [][pc = "idle" =>
       IF C11_AcceptedParams(params)
       THEN pc' = "loop"
       ELSE pc' = "rejected" /\ results' = results /\ UNCHANGED locals]_vars

---------------------------------------------------------------------------
(* Further properties of the first TradingSimulator                        *)

\* the running peak of the first i points of a curve
RECURSIVE C12_Peak(_, _)
C12_Peak(curve, i) ==
  IF i = 1 THEN curve[1].equity
  ELSE MathMax(C12_Peak(curve, i - 1), curve[i].equity)

\* the largest (running peak - equity) / running peak over the first i points
RECURSIVE C12_MaxOver(_, _)
C12_MaxOver(curve, i) ==
  IF i = 0 THEN Zero
  ELSE MathMax(C12_MaxOver(curve, i - 1),
               Div(Sub(C12_Peak(curve, i), curve[i].equity),
                   C12_Peak(curve, i)))

\* C12: the returned maxDrawdown is the maximum over the equity-curve points
\* of (running peak - equity) / running peak, as a fraction, and lies in [0,1).
C12_DrawdownFractionBelowOne ==
  results # null =>
    /\ results.maxDrawdown =
         C12_MaxOver(results.equityCurve, Len(results.equityCurve))
    /\ Ge(results.maxDrawdown, Zero)
    /\ Lt(results.maxDrawdown, R(1))

\* no capital and no open position
C13_Exhausted == Le(currentCapital, Zero) /\ Len(activePositions) = 0

\* C13: when a day starts with cash <= 0 and no open position the day loop
\* stops, and from then on no equity point, fee, trade or skipped-trade count
\* is produced; in every other case, open positions with zero cash included,
\* the day is processed.
C13_ExhaustionEndsLoop ==
  [][/\ (pc = "loop" /\ goldPriceHistory' # goldPriceHistory) =>
          pc' = (IF C13_Exhausted THEN "close" ELSE "fees")
     /\ (C13_Exhausted /\ pc \in {"loop", "close", "metrics"}) =>
          /\ pc' \in {"close", "metrics", "done"}
          /\ UNCHANGED <<equityCurve, totalFees, tradeHistory, tradesExecuted,
                         skippedTrades, currentCapital, activePositions>>
          /\ pc' = "done" =>
               /\ results'.equityCurve = equityCurve
               /\ results'.totalFees = totalFees
               /\ results'.tradeHistory = tradeHistory
               /\ results'.skippedTrades = skippedTrades]_vars

\* a finished run that went on with zero cash while a position was open and
\* stopped at the first day that began with nothing left
C13_Witness ==
  /\ pc = "done"
  /\ C13_Exhausted
  /\ Len(equityCurve) = index - 1
  /\ \E i \in 1..Len(tradeHistory) :
       /\ tradeHistory[i].capitalAtEntry = tradeHistory[i].baseAmount
       /\ tradeHistory[i].exitIndex > tradeHistory[i].entryIndex

\* the number of ledger trades with pnl > 0
RECURSIVE C14_Wins(_)
C14_Wins(history) ==
  IF history = <<>> THEN 0
  ELSE (IF Gt(history[1].pnl, Zero) THEN 1 ELSE 0) + C14_Wins(Tail(history))

\* C14: successRate is the number of ledger trades with pnl > 0 divided by
\* totalTrades, and 0 when there are no trades; avgProfitPerTrade is
\* totalProfitLoss divided by max(totalTrades, 1).
C14_SuccessRateAndAverage ==
  results # null =>
    /\ results.successRate =
         IF results.totalTrades = 0 THEN Zero
         ELSE Num(C14_Wins(results.tradeHistory), results.totalTrades)
    /\ results.avgProfitPerTrade =
         Div(results.totalProfitLoss,
             R(IF results.totalTrades > 1 THEN results.totalTrades ELSE 1))

\* a run with 3 winning trades and 1 losing trade: successRate 0.75
C14_Witness ==
  /\ results # null
  /\ results.totalTrades = 4
  /\ C14_Wins(results.tradeHistory) = 3
  /\ \E i \in 1..4 : Lt(results.tradeHistory[i].pnl, Zero)
  /\ results.successRate = Num(3, 4)

\* no day-over-day movement of the opening price reaches the threshold
C16_NoSignal(series, threshold) ==
  \A i \in 2..Len(series) :
    Lt(Num((series[i].openingPrice - series[i - 1].openingPrice) * 100,
           series[i - 1].openingPrice),
       threshold)

\* C16: over a series in which no movement of the opening price reaches the
\* entry threshold the simulator opens no trade, charges no fee, leaves the
\* ledger empty, and every equity point, like finalCapital, is the starting
\* capital.
C16_NoSignalNoTrade ==
  (pc \notin {"idle", "rejected"}
   /\ C16_NoSignal(goldPriceHistory, params.minPriceMovement)) =>
    /\ tradesExecuted = 0
    /\ activePositions = <<>>
    /\ totalFees = Zero
    /\ tradeHistory = <<>>
    /\ currentCapital = params.investmentCapital
    /\ \A i \in 1..Len(equityCurve) :
         equityCurve[i].equity = params.investmentCapital
    /\ results # null =>
         /\ results.finalCapital = params.investmentCapital
         /\ results.totalTrades = 0
         /\ results.totalFees = Zero
         /\ results.tradeHistory = <<>>
         /\ results.equityCurve = equityCurve

\* a finished run over a series of moving prices that never gave a signal
C16_Witness ==
  /\ pc = "done"
  /\ C16_NoSignal(goldPriceHistory, params.minPriceMovement)
  /\ Len(equityCurve) >= 3
  /\ \E i \in 2..Len(goldPriceHistory) :
       goldPriceHistory[i].openingPrice # goldPriceHistory[i - 1].openingPrice
  /\ results.finalCapital = params.investmentCapital

\* the movement of the opening price into the day being processed, in percent
C18_Movement ==
  Num((currentData.openingPrice - previousData.openingPrice) * 100,
      previousData.openingPrice)

\* the base amount of a position opened with this cash
C18_Base(cash) ==
  IF Lt(Div(Mul(params.positionSizePercent, cash), R(100)), cash)
  THEN Div(Mul(params.positionSizePercent, cash), R(100))
  ELSE cash

\* C18: on each processed day, a movement >= minPriceMovement with cash >= 100
\* opens a long position (if its base amount is >= 1) and leaves skippedTrades
\* alone; a movement >= minPriceMovement with cash < 100 opens nothing and
\* adds exactly 1 to skippedTrades; a movement < minPriceMovement does neither.
C18_EntryOrSkip ==
  [][pc = "entry" =>
       LET signal == Ge(C18_Movement, params.minPriceMovement)
           funded == Ge(currentCapital, R(100))
           opened ==
             /\ Len(activePositions') = Len(activePositions) + 1
             /\ SubSeq(activePositions', 1, Len(activePositions)) =
                  activePositions
             /\ activePositions'[Len(activePositions')].entryPrice =
                  R(currentData.openingPrice)
             /\ tradesExecuted' = tradesExecuted + 1
           nothingOpened ==
             UNCHANGED <<activePositions, tradesExecuted, currentCapital>>
       IN  /\ (signal /\ funded) =>
                /\ IF Ge(C18_Base(currentCapital), R(1)) THEN opened
                   ELSE nothingOpened
                /\ skippedTrades' = skippedTrades
           /\ (signal /\ ~funded) =>
                nothingOpened /\ skippedTrades' = skippedTrades + 1
           /\ ~signal => nothingOpened /\ skippedTrades' = skippedTrades]_vars

\* a run that opened a position on one day and skipped a signal on another
C18_Witness ==
  /\ pc = "done"
  /\ results.totalTrades >= 1
  /\ results.skippedTrades >= 1
  /\ Len(results.equityCurve) > results.totalTrades + results.skippedTrades

\* baseAmount >= 1 and leveragedAmount = baseAmount * leverage
C19_Sized(position) ==
  /\ Ge(position.baseAmount, R(1))
  /\ position.leveragedAmount = Mul(position.baseAmount, params.leverage)

\* every position, open or closed, is sized so
C19_AllSized ==
  /\ \A i \in 1..Len(activePositions) : C19_Sized(activePositions[i])
  /\ \A i \in 1..Len(tradeHistory) : C19_Sized(tradeHistory[i])

\* an opening takes min(positionSizePercent/100 * cash, cash) of the cash
C19_OpeningTakesBase ==
  [][(pc = "entry" /\ Len(activePositions') > Len(activePositions)) =>
       LET new == activePositions'[Len(activePositions')]
           share == Mul(Div(params.positionSizePercent, R(100)),
                        currentCapital)
       IN  /\ new.baseAmount =
                (IF Lt(share, currentCapital) THEN share ELSE currentCapital)
           /\ currentCapital' = Sub(currentCapital, new.baseAmount)
           /\ Ge(currentCapital, Zero) => Ge(currentCapital', Zero)]_vars

\* C19: every position opened has baseAmount = min(positionSizePercent/100 *
\* cash, cash) of the cash at entry, baseAmount >= 1 and leveragedAmount =
\* baseAmount * leverage; opening reduces the cash by exactly baseAmount and so
\* never makes it negative; no position with baseAmount < 1 is ever opened.
C19_PositionSizing == [](C19_AllSized) /\ C19_OpeningTakesBase

\* a position that took half of the cash is open next to an earlier one
C19_Witness ==
  /\ Len(activePositions) >= 2
  /\ LET new == activePositions[Len(activePositions)]
     IN  /\ new.baseAmount = Div(new.remainingCapitalAtEntry, R(2))
         /\ currentCapital = Sub(new.remainingCapitalAtEntry, new.baseAmount)
         /\ new.leveragedAmount = Mul(new.baseAmount, params.leverage)

\* the daily fee of a position
C20_Fee(position) ==
  Div(Mul(params.dailyFeePercent, position.baseAmount), R(100))

\* the daily fees of the first i open positions together
RECURSIVE C20_FeesUpTo(_)
C20_FeesUpTo(i) ==
  IF i = 0 THEN Zero
  ELSE Add(C20_FeesUpTo(i - 1), C20_Fee(activePositions[i]))

\* the cash covers the fee of each of the first i open positions in turn
C20_Sufficient(i) ==
  \A j \in 1..i : Ge(currentCapital, C20_FeesUpTo(j))

\* what the fee accumulators of the open positions gain in a step
RECURSIVE C20_Charged(_, _, _)
C20_Charged(before, after, i) ==
  IF i = 0 THEN Zero
  ELSE Add(C20_Charged(before, after, i - 1),
           Sub(after[i].accumulatedFees, before[i].accumulatedFees))

\* the fee step of a day: on the first point of a date every open position
\* the cash suffices for is charged its fee once, on a further point of the
\* same date nothing is charged, and totalFees gains what the accumulators gain
C20_FeeStep ==
  pc = "fees" =>
    /\ Len(activePositions') = Len(activePositions)
    /\ \A i \in 1..Len(activePositions) :
         IF currentDate # currentData.date
         THEN /\ activePositions[i].entryDate < currentData.date
              /\ C20_Sufficient(i) =>
                   activePositions'[i].accumulatedFees =
                     Add(activePositions[i].accumulatedFees,
                         C20_Fee(activePositions[i]))
         ELSE activePositions'[i].accumulatedFees =
                activePositions[i].accumulatedFees
    /\ Sub(totalFees', totalFees) =
         C20_Charged(activePositions, activePositions', Len(activePositions))
    /\ pc' = "exits"

\* outside the fee step nothing is charged: a position starts with no fees on
\* its entry date, keeps its accumulator until it is closed, and the ledger
\* entry holds what it had accumulated, that day's fee included
C20_NoChargeElsewhere ==
  pc \in {"exits", "entry", "equity", "close"} =>
    /\ totalFees' = totalFees
    /\ \A i \in 1..Len(activePositions') :
         \/ \E j \in 1..Len(activePositions) :
              /\ activePositions'[i].entryIndex = activePositions[j].entryIndex
              /\ activePositions'[i].accumulatedFees =
                   activePositions[j].accumulatedFees
         \/ /\ pc = "entry"
            /\ activePositions'[i].entryDate = currentData.date
            /\ activePositions'[i].accumulatedFees = Zero
    /\ \A k \in (Len(tradeHistory) + 1)..Len(tradeHistory') :
         \E j \in 1..Len(activePositions) :
           /\ tradeHistory'[k].entryIndex = activePositions[j].entryIndex
           /\ tradeHistory'[k].fees = activePositions[j].accumulatedFees
           /\ tradeHistory'[k].exit = currentData.date

\* C20: while cash is sufficient every open position is charged
\* dailyFeePercent/100 * baseAmount exactly once for each distinct date after
\* its entry date up to and including its exit date, never on its entry date,
\* before that day's stop check, and each charge goes equally to totalFees and
\* to the position's accumulator.
C20_FeeOncePerDate == [][C20_FeeStep /\ C20_NoChargeElsewhere]_vars

\* a trade the stop closed two dates after its entry, with two days' fees
C20_Witness ==
  \E k \in 1..Len(tradeHistory) :
    /\ tradeHistory[k].closedBy = "stop"
    /\ tradeHistory[k].exit = tradeHistory[k].entry + 2
    /\ tradeHistory[k].fees =
         Mul(R(2), Div(Mul(params.dailyFeePercent, tradeHistory[k].baseAmount),
                       R(100)))
    /\ Gt(tradeHistory[k].fees, Zero)

\* the highest price of a position once the day's high is taken in
C22_Highest(position) ==
  MathMax(position.highestPrice, R(currentData.highestPrice))

\* the dollar loss of a position from its highest price to the day's low
\* reaches the stop
C22_Stopped(position) ==
  Ge(Div(Mul(position.leveragedAmount,
             Sub(C22_Highest(position), R(currentData.lowestPrice))),
         C22_Highest(position)),
     params.stopLossDollar)

\* C22: on each day after its entry day an open position's highestPrice is
\* first raised to max(highestPrice, dailyHigh), and the position is closed
\* that day if and only if leveragedAmount * (highestPrice - dailyLow) /
\* highestPrice >= stopLossDollar; otherwise it stays open with unchanged base
\* and leveraged amounts.
C22_StopCheck ==
  [][pc = "exits" =>
       \A j \in 1..Len(activePositions) :
         LET position == activePositions[j]
             closed ==
               \E k \in (Len(tradeHistory) + 1)..Len(tradeHistory') :
                 /\ tradeHistory'[k].entryIndex = position.entryIndex
                 /\ tradeHistory'[k].highestPrice = C22_Highest(position)
             open ==
               \E i \in 1..Len(activePositions') :
                 /\ activePositions'[i].entryIndex = position.entryIndex
                 /\ activePositions'[i].highestPrice = C22_Highest(position)
                 /\ activePositions'[i].baseAmount = position.baseAmount
                 /\ activePositions'[i].leveragedAmount =
                      position.leveragedAmount
         IN  /\ position.entryIndex < index
             /\ params.useTrailingStop
             /\ IF C22_Stopped(position) THEN closed /\ ~open
                ELSE open /\ ~closed]_vars

\* a day on which one position was stopped and another, opened before that
\* day, stayed open at a highest price above its entry day's
C22_Witness ==
  /\ pc = "entry"
  /\ \E k \in 1..Len(tradeHistory) :
       /\ tradeHistory[k].closedBy = "stop"
       /\ tradeHistory[k].exitIndex = index
  /\ \E i \in 1..Len(activePositions) :
       /\ activePositions[i].entryIndex < index
       /\ Gt(activePositions[i].highestPrice,
             R(goldPriceHistory[activePositions[i].entryIndex + 1].highestPrice))

\* baseAmount + leveragedAmount * (dailyClose - entryPrice) / entryPrice of
\* the first i open positions together
RECURSIVE C24_Marked(_)
C24_Marked(i) ==
  IF i = 0 THEN Zero
  ELSE LET pos == activePositions[i]
       IN  Add(C24_Marked(i - 1),
               Add(pos.baseAmount,
                   Div(Mul(pos.leveragedAmount,
                           Sub(R(currentData.currentPrice), pos.entryPrice)),
                       pos.entryPrice)))

\* the unrealized pnl of the first i open positions together
RECURSIVE C24_Unrealized(_)
C24_Unrealized(i) ==
  IF i = 0 THEN Zero
  ELSE LET pos == activePositions[i]
       IN  Add(C24_Unrealized(i - 1),
               Div(Mul(pos.leveragedAmount,
                       Sub(R(currentData.currentPrice), pos.entryPrice)),
                   pos.entryPrice))

\* the equity of the state: cash plus the open positions marked at the close
C24_MarkedEquity == Add(currentCapital, C24_Marked(Len(activePositions)))

\* the same equity from the run's totals
C24_TotalsEquity ==
  Add(Sub(Add(params.investmentCapital, SumPnl(tradeHistory)), totalFees),
      C24_Unrealized(Len(activePositions)))

\* C24: each equity-curve point is computed after that day's fees, exits and
\* entry, and equals cash + sum over open positions of (baseAmount +
\* leveragedAmount * (dailyClose - entryPrice) / entryPrice), accumulated fees
\* not subtracted; equivalently investmentCapital + realized pnl so far -
\* totalFees so far + total unrealized pnl of the open positions.
C24_EquityPoint ==
  [][/\ pc = "equity" =>
          /\ equityCurve' =
               Append(equityCurve, [date |-> currentData.date,
                                    equity |-> C24_MarkedEquity])
          /\ C24_MarkedEquity = C24_TotalsEquity
          /\ UNCHANGED <<currentCapital, activePositions, tradeHistory,
                         totalFees>>
     /\ pc \in {"fees", "exits", "entry"} => equityCurve' = equityCurve]_vars

\* an equity point over two open positions that have paid fees and stand at a
\* loss or a gain, after a trade was closed
C24_Witness ==
  /\ pc = "loop"
  /\ Len(equityCurve) > 0
  /\ Len(tradeHistory) > 0
  /\ Len(activePositions) >= 2
  /\ \A i \in 1..Len(activePositions) :
       Gt(activePositions[i].accumulatedFees, Zero)
  /\ C24_Unrealized(Len(activePositions)) # Zero
  /\ equityCurve[Len(equityCurve)].equity = C24_TotalsEquity

\* the fees field summed over a ledger
RECURSIVE C25_SumFees(_)
C25_SumFees(history) ==
  IF history = <<>> THEN Zero
  ELSE Add(history[1].fees, C25_SumFees(Tail(history)))

\* C25: after any run the sum of the fees field over all tradeHistory entries
\* equals totalFees (every fee unit paid is attributed to exactly one
\* position).
C25_LedgerFeesAreTotalFees ==
  results # null => C25_SumFees(results.tradeHistory) = results.totalFees

\* a finished run in which a stopped trade and a liquidated trade both paid
\* fees
C25_Witness ==
  /\ results # null
  /\ \E k \in ClosedBy(results.tradeHistory, "stop") :
       Gt(results.tradeHistory[k].fees, Zero)
  /\ \E k \in ClosedBy(results.tradeHistory, "end") :
       Gt(results.tradeHistory[k].fees, Zero)

\* C26: whenever the equity curve is non-empty, finalCapital equals the
\* equity of the last equity-curve point, both when the loop runs to the end
\* of the series (the liquidation at the last close realizes exactly the
\* unrealized pnl counted in the last point) and when it breaks early on
\* capital exhaustion.
C26_FinalCapitalIsLastEquity ==
  (results # null /\ Len(results.equityCurve) > 0) =>
    results.finalCapital =
      results.equityCurve[Len(results.equityCurve)].equity

\* a finished run whose liquidation realized a pnl other than zero on two
\* positions
C26_Witness ==
  /\ results # null
  /\ Len(results.equityCurve) > 0
  /\ Cardinality(ClosedBy(results.tradeHistory, "end")) >= 2
  /\ \A k \in ClosedBy(results.tradeHistory, "end") :
       results.tradeHistory[k].pnl # Zero

\* the low of a series point would stop a position of this size whose
\* highest price is the point's high
C27_WouldStop(point_, leveragedAmount) ==
  Ge(Div(Mul(leveragedAmount,
             Sub(R(point_.highestPrice), R(point_.lowestPrice))),
         R(point_.highestPrice)),
     params.stopLossDollar)

\* C27: a position is never closed by the stop on its own entry day: entry is
\* evaluated after the day's exit checks, so every stop-closed ledger entry
\* has an exit day strictly later in the series than its entry day, and the
\* entry day's low is never tested against the stop.
C27_NoStopOnEntryDay ==
  /\ \A k \in 1..Len(tradeHistory) :
       tradeHistory[k].closedBy = "stop" =>
         tradeHistory[k].exitIndex > tradeHistory[k].entryIndex
  /\ pc \in {"fees", "exits"} =>
       \A i \in 1..Len(activePositions) :
         activePositions[i].entryIndex < index
  /\ pc \in {"equity", "loop"} =>
       \A i \in 1..Len(activePositions) :
         activePositions[i].entryIndex <= index

\* a position whose entry day's low was far enough below that day's high to
\* trigger the stop stayed open that day and was stopped on a later one
C27_Witness ==
  \E k \in 1..Len(tradeHistory) :
    /\ tradeHistory[k].closedBy = "stop"
    /\ tradeHistory[k].exitIndex > tradeHistory[k].entryIndex
    /\ C27_WouldStop(goldPriceHistory[tradeHistory[k].entryIndex + 1],
                     tradeHistory[k].leveragedAmount)

\* the low of the series point a ledger entry was closed at
C29_ExitLow(trade) == R(goldPriceHistory[trade.exitIndex + 1].lowestPrice)

\* C29: for every stop-triggered close the reconstructed exit price lies
\* between the triggering day's low and the position's highest price since
\* entry: dailyLow <= exitPrice <= highestPrice.
C29_ExitPriceBetweenLowAndHighest ==
  \A k \in 1..Len(tradeHistory) :
    tradeHistory[k].closedBy = "stop" =>
      /\ Le(C29_ExitLow(tradeHistory[k]), tradeHistory[k].exitPrice)
      /\ Le(tradeHistory[k].exitPrice, tradeHistory[k].highestPrice)

\* a stopped trade whose reconstructed exit price is strictly above the low
\* of its exit day and strictly below its highest price
C29_Witness ==
  \E k \in 1..Len(tradeHistory) :
    /\ tradeHistory[k].closedBy = "stop"
    /\ Lt(C29_ExitLow(tradeHistory[k]), tradeHistory[k].exitPrice)
    /\ Lt(tradeHistory[k].exitPrice, tradeHistory[k].highestPrice)

---------------------------------------------------------------------------
(* Further properties of the utilities (specification SpecMetrics)         *)

\* the lengths of the contiguous runs of trades with pnl < 0 in a ledger
C15_LossRuns(history) ==
  {j - i + 1 : <<i, j>> \in
     {r \in (1..Len(history)) \X (1..Len(history)) :
        /\ r[1] <= r[2]
        /\ \A k \in r[1]..r[2] : Lt(history[k].pnl, Zero)}}

\* C15: calculateMaxConsecutiveLosses returns the length of the longest
\* contiguous run of trades with pnl < 0; a trade with pnl >= 0 ends a run and
\* an empty ledger gives 0.
C15_LongestContiguousLossRun ==
  results # null =>
    /\ \A n \in C15_LossRuns(tradeHistory) : n <= results.maxConsecutiveLosses
    /\ results.maxConsecutiveLosses \in C15_LossRuns(tradeHistory) \cup {0}
    /\ tradeHistory = <<>> => results.maxConsecutiveLosses = 0

\* the ledger [win, loss, loss, win, loss], for which the result is 2
C15_Witness ==
  /\ results # null
  /\ tradeHistory = <<[pnl |-> R(10)], [pnl |-> R(-10)], [pnl |-> R(-10)],
                      [pnl |-> R(10)], [pnl |-> R(-10)]>>
  /\ results.maxConsecutiveLosses = 2

---------------------------------------------------------------------------
(* README.md, first TradingSimulator, with the parameters the form starts  *)
(* with (183-191) over three-day series: day 2 opens 0.5% above day 1, and *)
(* the low of day 3 is 3% below the high of day 2.                         *)

ScenarioParams ==
  [investmentCapital |-> R(10000),
   positionSizePercent |-> R(1),
   leverage |-> R(100),
   stopLossDollar |-> R(200),
   minPriceMovement |-> Num(3, 10),
   dailyFeePercent |-> Num(1, 10),
   useTrailingStop |-> TRUE]

\* day 1: flat at 20000
ScenarioDay1 ==
  [date |-> 1, openingPrice |-> 20000, highestPrice |-> 20000,
   lowestPrice |-> 20000, currentPrice |-> 20000]

\* day 2: opens at 20100 (+0.5%), makes a high of 0.5% or 2.5% above its open
\* and closes at its open or at its high
ScenarioDay2 ==
  {[date |-> 2, openingPrice |-> 20100, highestPrice |-> h,
    lowestPrice |-> 20100, currentPrice |-> c] :
     <<h, c>> \in {<<20200, 20100>>, <<20200, 20200>>,
                   <<20600, 20100>>, <<20600, 20600>>}}

\* day 3 after a day with high h: its low is 97% of h; it opens where day 2
\* opened (no signal) or 0.5% above (a signal), and may make a new high
ScenarioDay3(h) ==
  {[date |-> 3, openingPrice |-> t[1], highestPrice |-> t[2],
    lowestPrice |-> (h * 97) \div 100, currentPrice |-> t[3]] :
     t \in {<<20100, 20200, 20100>>, <<20100, 20800, 20100>>,
            <<20100, 20200, (h * 97) \div 100>>,
            <<20100, 20800, (h * 97) \div 100>>,
            <<20200, 20200, 20200>>, <<20200, 20800, 20200>>}}

InitScenario ==
  /\ params = ScenarioParams
  /\ results = null
  /\ pc = "idle"
  /\ goldPriceHistory = <<ScenarioDay1>>
  /\ currentCapital = Zero
  /\ totalProfitLoss = Zero
  /\ tradesExecuted = 0
  /\ totalFees = Zero
  /\ consecutiveLosses = 0
  /\ maxConsecutiveLosses = 0
  /\ skippedTrades = 0
  /\ equityCurve = <<>>
  /\ tradeHistory = <<>>
  /\ openPositions = <<>>
  /\ activePositions = <<>>
  /\ currentDate = NoDate
  /\ program = "README.md"
  /\ lastTwoYearsGoldPriceData = <<>>
  /\ openPosition = null
  /\ lastTradeDate = NoDate

\* the loop head over the days of these series
NextDayScenario ==
  /\ pc = "loop"
  /\ Len(goldPriceHistory) < 3
  /\ \E c \in IF Len(goldPriceHistory) = 1 THEN ScenarioDay2
              ELSE ScenarioDay3(currentData.highestPrice) :
       goldPriceHistory' = Append(goldPriceHistory, c)
  /\ pc' = IF Le(currentCapital, Zero) /\ Len(activePositions) = 0
           THEN "close" ELSE "fees"
  /\ UNCHANGED <<single, params, results, locals>>

\* index has reached goldPriceHistory.length, after the third day
SeriesEndScenario ==
  /\ pc = "loop"
  /\ Len(goldPriceHistory) = 3
  /\ pc' = "close"
  /\ UNCHANGED <<single, params, results, goldPriceHistory, locals>>

NextScenario ==
  \/ RunSimulation
  \/ NextDayScenario
  \/ SeriesEndScenario
  \/ DailyFees
  \/ ProcessPositions
  \/ CheckEntry
  \/ PushEquity
  \/ CloseRemaining
  \/ SetResults

SpecScenario == InitScenario /\ [][NextScenario]_vars

\* the highest price the position of day 2 has seen when day 3 is checked
C17_Highest ==
  IF goldPriceHistory[3].highestPrice > goldPriceHistory[2].highestPrice
  THEN goldPriceHistory[3].highestPrice
  ELSE goldPriceHistory[2].highestPrice

\* the open of day 3 is itself an entry signal
C17_SignalOnDay3 ==
  Ge(Num((goldPriceHistory[3].openingPrice - goldPriceHistory[2].openingPrice)
           * 100,
         goldPriceHistory[2].openingPrice),
     params.minPriceMovement)

\* C17 as stated: the run yields exactly one closed trade, opened on day 2 and
\* closed on day 3, with negative pnl and fees > 0.
C17_OneLosingTrade ==
  results # null =>
    /\ Len(results.tradeHistory) = 1
    /\ results.tradeHistory[1].entry = 2
    /\ results.tradeHistory[1].exit = 3
    /\ Lt(results.tradeHistory[1].pnl, Zero)
    /\ Gt(results.tradeHistory[1].fees, Zero)

\* C17 as the code has it: the position of base 100 opened on day 2 is closed
\* on day 3 by the trailing stop at 98% of the highest high of days 2 and 3,
\* having paid one fee of 0.1; its pnl is negative exactly when that price is
\* below the open of day 2; it is the only trade unless the open of day 3 is
\* itself a signal, which opens a second position that the end of the series
\* closes.
C17_StopTradeOfDayTwo ==
  results # null =>
    LET h == results.tradeHistory
        entryPrice == goldPriceHistory[2].openingPrice
    IN  /\ Len(h) = (IF C17_SignalOnDay3 THEN 2 ELSE 1)
        /\ h[1].entry = 2
        /\ h[1].exit = 3
        /\ h[1].closedBy = "stop"
        /\ h[1].baseAmount = R(100)
        /\ h[1].fees = Num(1, 10)
        /\ h[1].exitPrice = Num(C17_Highest * 98, 100)
        /\ h[1].pnl =
             Num((C17_Highest * 98 - entryPrice * 100) * 100, entryPrice)
        /\ Lt(h[1].pnl, Zero) <=> (C17_Highest * 98 < entryPrice * 100)
        /\ C17_SignalOnDay3 =>
             /\ h[2].entry = 3
             /\ h[2].exit = 3
             /\ h[2].closedBy = "end"
             /\ h[2].fees = Zero

\* the run the scenario has in mind: one trade, stopped out at a loss
C17_Witness ==
  /\ results # null
  /\ Len(results.tradeHistory) = 1
  /\ results.tradeHistory[1].entry = 2
  /\ results.tradeHistory[1].exit = 3
  /\ Lt(results.tradeHistory[1].pnl, Zero)
  /\ results.tradeHistory[1].fees = Num(1, 10)

---------------------------------------------------------------------------
(* README.md, first TradingSimulator, with parameters under which the cash *)
(* runs short of a daily fee while several positions are open, and under   *)
(* which positions of different sizes are stopped on the same day.         *)

\* a stop of 100 and a daily fee of 0%, 10% or 60% of the base amount
TightParamSpace ==
  [investmentCapital : {R(200)},
   positionSizePercent : {R(50)},
   leverage : {R(10)},
   stopLossDollar : {R(100)},
   minPriceMovement : {R(0)},
   dailyFeePercent : {R(0), R(10), R(60)},
   useTrailingStop : {TRUE}]

InitTight ==
  /\ params \in TightParamSpace
  /\ results = null
  /\ pc = "idle"
  /\ goldPriceHistory \in {<<c>> : c \in FirstPoints}
  /\ currentCapital = Zero
  /\ totalProfitLoss = Zero
  /\ tradesExecuted = 0
  /\ totalFees = Zero
  /\ consecutiveLosses = 0
  /\ maxConsecutiveLosses = 0
  /\ skippedTrades = 0
  /\ equityCurve = <<>>
  /\ tradeHistory = <<>>
  /\ openPositions = <<>>
  /\ activePositions = <<>>
  /\ currentDate = NoDate
  /\ program = "README.md"
  /\ lastTwoYearsGoldPriceData = <<>>
  /\ openPosition = null
  /\ lastTradeDate = NoDate

SpecTight == InitTight /\ [][Next]_vars

\* the k-th open position is the first whose fee the cash does not cover
C21_Short(k) ==
  /\ k \in 1..Len(activePositions)
  /\ C20_Sufficient(k - 1)
  /\ ~Ge(currentCapital, C20_FeesUpTo(k))

\* C21: when the cash is insufficient for a position's daily fee, only the
\* remaining cash is paid (added to totalFees and to that position's
\* accumulator), the cash becomes exactly zero, and no further open position
\* is charged any fee on that day.
C21_PartialFeePayment ==
  [][pc = "fees" =>
       IF currentDate # currentData.date
       THEN \A k \in 1..Len(activePositions) :
              C21_Short(k) =>
                /\ activePositions'[k].accumulatedFees =
                     Add(activePositions[k].accumulatedFees,
                         Sub(currentCapital, C20_FeesUpTo(k - 1)))
                /\ totalFees' = Add(totalFees, currentCapital)
                /\ currentCapital' = Zero
                /\ \A i \in (k + 1)..Len(activePositions) :
                     activePositions'[i] = activePositions[i]
       ELSE /\ activePositions' = activePositions
            /\ totalFees' = totalFees
            /\ currentCapital' = currentCapital]_vars

\* the cash has just run out on the fee of the first of two positions: it
\* paid a part of its fee, the second one, a day old, paid nothing
C21_Witness ==
  /\ pc = "exits"
  /\ currentCapital = Zero
  /\ Len(activePositions) >= 2
  /\ activePositions[1].lastFeeDate # currentDate
  /\ Gt(activePositions[1].accumulatedFees, Zero)
  /\ Lt(activePositions[1].accumulatedFees, C20_Fee(activePositions[1]))
  /\ activePositions[2].entryDate < currentDate
  /\ activePositions[2].accumulatedFees = Zero

\* the stop price and the pnl of a ledger entry, from its own fields
C23_ExitPrice(trade) ==
  Mul(trade.highestPrice,
      Sub(R(1), Div(params.stopLossDollar, trade.leveragedAmount)))

C23_Pnl(trade) ==
  Div(Mul(trade.leveragedAmount, Sub(trade.exitPrice, trade.entryPrice)),
      trade.entryPrice)

\* every stop-closed ledger entry carries the reconstructed price and its pnl
C23_StopTrades ==
  \A k \in 1..Len(tradeHistory) :
    tradeHistory[k].closedBy = "stop" =>
      /\ tradeHistory[k].exitPrice = C23_ExitPrice(tradeHistory[k])
      /\ tradeHistory[k].pnl = C23_Pnl(tradeHistory[k])

\* baseAmount + pnl of the ledger entries from the k-th on
RECURSIVE C23_Returned(_, _)
C23_Returned(history, k) ==
  IF k > Len(history) THEN Zero
  ELSE Add(Add(history[k].baseAmount, history[k].pnl),
           C23_Returned(history, k + 1))

\* the exit step adds baseAmount + pnl of each trade it closes to the cash,
\* and nothing else: the accumulated fees are not taken off again
C23_CashReturned ==
  [][pc = "exits" =>
       /\ Sub(currentCapital', currentCapital) =
            C23_Returned(tradeHistory', Len(tradeHistory) + 1)
       /\ totalFees' = totalFees]_vars

\* C23: for every stop-triggered close exitPrice = highestPrice * (1 -
\* stopLossDollar / leveragedAmount), pnl = leveragedAmount * (exitPrice -
\* entryPrice) / entryPrice, and the cash increases by exactly baseAmount +
\* pnl, the position's accumulated fees not being subtracted again.
C23_StopCloseAmounts == [](C23_StopTrades) /\ C23_CashReturned

\* two positions that had paid fees were stopped on the same day
C23_Witness ==
  /\ pc = "entry"
  /\ \E k \in 2..Len(tradeHistory) :
       /\ tradeHistory[k].closedBy = "stop"
       /\ tradeHistory[k - 1].closedBy = "stop"
       /\ tradeHistory[k].exitIndex = index
       /\ tradeHistory[k - 1].exitIndex = index
       /\ Gt(tradeHistory[k].fees, Zero)
       /\ Gt(tradeHistory[k - 1].fees, Zero)

\* every series point read has a low above zero and a high at or above its
\* opening price
C28_PricesInRange ==
  \A i \in 1..Len(goldPriceHistory) :
    /\ goldPriceHistory[i].lowestPrice > 0
    /\ goldPriceHistory[i].highestPrice >= goldPriceHistory[i].openingPrice

\* C28: for price data with dailyLow > 0 and dailyHigh >= dailyOpen every
\* stop-closed trade has pnl >= -stopLossDollar (the realized loss of a stop
\* exit never exceeds the configured dollar stop); trades closed by the
\* end-of-series liquidation have no such bound.
C28_StopLossBounded ==
  C28_PricesInRange =>
    \A k \in 1..Len(tradeHistory) :
      tradeHistory[k].closedBy = "stop" =>
        Ge(tradeHistory[k].pnl, Neg(params.stopLossDollar))

\* a finished run with a stopped trade that lost exactly the dollar stop and
\* a liquidated trade that lost more
C28_Witness ==
  /\ results # null
  /\ C28_PricesInRange
  /\ \E k \in ClosedBy(results.tradeHistory, "stop") :
       results.tradeHistory[k].pnl = Neg(params.stopLossDollar)
  /\ \E k \in ClosedBy(results.tradeHistory, "end") :
       Lt(results.tradeHistory[k].pnl, Neg(params.stopLossDollar))

\* the ledger is in non-decreasing order of exit day, the stopped trades
\* before the liquidated ones
C30_OrderedByExit(history) ==
  \A k, l \in 1..Len(history) :
    k < l =>
      /\ history[k].exit <= history[l].exit
      /\ history[k].exitIndex <= history[l].exitIndex
      /\ history[l].closedBy = "stop" => history[k].closedBy = "stop"

=============================================================================
